---- MODULE Spec2Model ----
(***************************************************************************)
(* canadianccv: schema index (schema.py) and content model (ccv.py).       *)
(*                                                                         *)
(* The schema definition (cv.xml, cv-lov.xml, cv-ref-table.xml) is input   *)
(* data; it is fixed here to a small tree that has the shapes the code     *)
(* distinguishes: container / field-bearing / dependent sections, a label  *)
(* shared by two sections under different parents, a field name declared   *)
(* by two sections, one LOV table and reference tables with ancestor       *)
(* classification levels.                                                   *)
(***************************************************************************)
EXTENDS Integers, Sequences, FiniteSets, TLC

VARIABLES
    _schema,      \* schema.py:43  process-wide lookup dictionary
    _content,     \* ccv.py:52     CCV._content, the root dictionary
    _index,       \* ccv.py:51     CCV._index, section id -> container
    ingested,     \* per section, the records stored so far, in order
    lastOp,       \* the last CCV operation and its outcome
    nOps,         \* number of CCV operations made so far
    lastCall,     \* the last Section.from_entries call and its outcome
    nCalls,       \* number of from_entries and lookup calls made so far
    lastGet,      \* the last Section(...) lookup and its outcome
    lastLoad,     \* the last load_schema call made after the first one
    lastProp,     \* the last section whose properties were read, and them
    lastRule,     \* the last Field.validate call and its outcome
    lastParse,    \* the last CCV.parse_xml call and its outcome
    ref_values,   \* schema.py:561 entry.values of the Reference entries
    lastXml,      \* the last Field.to_xml / Reference.to_xml call
    nXml,         \* number of such calls made so far
    _wrapper,     \* ccv.py:13    the module's TextWrapper
    lastYaml      \* the lines the last CCV.to_yaml call wrote

vars == <<_schema, _content, _index, ingested, lastOp, nOps, lastCall, nCalls,
          lastGet, lastLoad, lastProp, lastRule, lastParse, ref_values, lastXml, nXml, _wrapper,
          lastYaml>>

(***************************************************************************)
(* Bounds                                                                  *)
(***************************************************************************)
MaxEntries == 3   \* most names of InputNames handed to Section.from_entries
MaxCalls == 2     \* from_entries calls per behaviour
MaxOps == 2       \* CCV operations per behaviour
MaxXml == 3       \* Field.to_xml / Reference.to_xml calls per behaviour

(***************************************************************************)
(* The schema definition: <section> and <field> elements of cv.xml         *)
(***************************************************************************)
EmptyMap == [x \in {} |-> ""]

\* <section id=.. englishName=.. orderIndex=..>; parent is the id of the
\* enclosing <section>, "" for a child of the document root
SectionXml ==
    [ s1 |-> [label |-> "Teaching", parent |-> "",   order |-> "1"],
      s2 |-> [label |-> "Courses",  parent |-> "s1", order |-> "2"],
      s3 |-> [label |-> "Staff",    parent |-> "s2", order |-> "10"],
      s4 |-> [label |-> "Research", parent |-> "",   order |-> "2"],
      s5 |-> [label |-> "Courses",  parent |-> "s4", order |-> "1"],
      s6 |-> [label |-> "Notes",    parent |-> "",   order |-> "3"],
      s7 |-> [label |-> "Memo",     parent |-> "",   order |-> "10"],
      s10 |-> [label |-> "Group",   parent |-> "",   order |-> "5"],
      s11 |-> [label |-> "Group",   parent |-> "s10", order |-> "1"],
      s12 |-> [label |-> "Item",    parent |-> "s11", order |-> "2"] ]

SectionIds == DOMAIN SectionXml

\* <field id=.. englishName=.. dataType=.. lookupId=.. orderIndex=..>
\* rules are the <constraint validatorRule=.. parameters=..> children
FieldXml ==
    [ f1 |-> [label |-> "Code",  section |-> "s2", type |-> "String",
              lookup |-> "", order |-> "1", rules |-> <<[id |-> 8, par |-> 2]>>],
      f2 |-> [label |-> "Title", section |-> "s2", type |-> "String",
              lookup |-> "", order |-> "2", rules |-> <<>>],
      f3 |-> [label |-> "Level", section |-> "s2", type |-> "LOV",
              lookup |-> "l1", order |-> "3", rules |-> <<>>],
      f4 |-> [label |-> "Org", section |-> "s2", type |-> "Reference",
              lookup |-> "r3", order |-> "4", rules |-> <<>>],
      f5 |-> [label |-> "Name", section |-> "s3", type |-> "String",
              lookup |-> "", order |-> "1", rules |-> <<>>],
      f6 |-> [label |-> "Code", section |-> "s5", type |-> "String",
              lookup |-> "", order |-> "1", rules |-> <<>>],
      f7 |-> [label |-> "A", section |-> "s6", type |-> "String",
              lookup |-> "", order |-> "1", rules |-> <<>>],
      f8 |-> [label |-> "BC", section |-> "s6", type |-> "String",
              lookup |-> "", order |-> "2", rules |-> <<>>],
      f9 |-> [label |-> "AB", section |-> "s7", type |-> "String",
              lookup |-> "", order |-> "1", rules |-> <<>>],
      f10 |-> [label |-> "C", section |-> "s7", type |-> "String",
              lookup |-> "", order |-> "2", rules |-> <<>>],
      f11 |-> [label |-> "A", section |-> "s5", type |-> "String",
              lookup |-> "", order |-> "2", rules |-> <<>>],
      f12 |-> [label |-> "When", section |-> "s2", type |-> "Datetime",
              lookup |-> "", order |-> "5", rules |-> <<>>],
      f13 |-> [label |-> "Pmid", section |-> "s2", type |-> "Pubmed",
              lookup |-> "", order |-> "6",
              rules |-> <<[id |-> 24, par |-> "f12"]>>],
      f14 |-> [label |-> "Span", section |-> "s2", type |-> "Elapsed-Time",
              lookup |-> "", order |-> "7", rules |-> <<>>],
      f15 |-> [label |-> "G", section |-> "s11", type |-> "String",
              lookup |-> "", order |-> "1", rules |-> <<>>],
      f16 |-> [label |-> "I", section |-> "s12", type |-> "String",
              lookup |-> "", order |-> "1", rules |-> <<>>] ]

FieldIds == DOMAIN FieldXml

\* XML.label of a section element
label(s) == SectionXml[s].label

\* XML.parent_label, as load_schema keys it: str(section.parent_label);
\* the document root carries no name, so its label is None
parent_label(s) ==
    IF SectionXml[s].parent = "" THEN "None" ELSE label(SectionXml[s].parent)

\* labels of the <section> and <field> children of a section element
ChildLabels(s) ==
    {label(c) : c \in {c \in SectionIds : SectionXml[c].parent = s}}
    \cup {FieldXml[f].label : f \in {f \in FieldIds : FieldXml[f].section = s}}

(***************************************************************************)
(* load_schema: the "Section" and "entries" lookup tables                  *)
(***************************************************************************)
\* a dictionary slot: a schema node (leaf) or a nested dictionary (sub)
Leaf(id) == [leaf |-> TRUE, id |-> id, sub |-> EmptyMap]
Sub(m) == [leaf |-> FALSE, id |-> "", sub |-> m]

\* _schema["Section"] after load_schema: [id] and [label][str(parent_label)]
LoadedSections ==
    LET labels == {label(s) : s \in SectionIds}
        byLabel(l) == {s \in SectionIds : label(s) = l}
    IN  [k \in SectionIds \cup labels |->
            IF k \in SectionIds THEN Leaf(k)
            ELSE Sub([p \in {parent_label(s) : s \in byLabel(k)} |->
                        CHOOSE s \in byLabel(k) : parent_label(s) = p])]

\* _schema["entries"] after load_schema: child label -> set of section ids
LoadedEntries ==
    LET all == UNION {ChildLabels(s) : s \in SectionIds}
    IN  [e \in all |-> {s \in SectionIds : e \in ChildLabels(s)}]

\* _schema["Field"] after load_schema: [id]
LoadedFields == [f \in FieldIds |-> Leaf(f)]

(***************************************************************************)
(* _get_schema / _add_schema on the "Section" class                        *)
(***************************************************************************)
\* outcome of a lookup: a node id, or SchemaError
Found(id) == [ok |-> TRUE, id |-> id]
SchemaError == [ok |-> FALSE, id |-> ""]

\* _get_schema as it would be if it went by the first key only
_get_schemaFirstKey(dict, keys) ==
    IF keys[1] \notin DOMAIN dict THEN SchemaError
    ELSE IF dict[keys[1]].leaf THEN Found(dict[keys[1]].id)
    ELSE Found(dict[keys[1]].sub[CHOOSE q \in DOMAIN dict[keys[1]].sub : TRUE])

\* _get_schema("Section", keys) for one or two keys
_get_schema(dict, keys) ==
    IF keys[1] \notin DOMAIN dict THEN SchemaError
    ELSE LET slot == dict[keys[1]]
         IN  IF Len(keys) = 1
             THEN IF slot.leaf THEN Found(slot.id)
                  ELSE IF Cardinality(DOMAIN slot.sub) = 1
                       THEN Found(slot.sub[CHOOSE p \in DOMAIN slot.sub : TRUE])
                       ELSE SchemaError
             ELSE IF slot.leaf \/ keys[2] \notin DOMAIN slot.sub
                  THEN SchemaError
                  ELSE Found(slot.sub[keys[2]])

\* _add_schema("Section", [name], section) with unique = True: the
\* dictionary afterwards, and whether SchemaError("not unique") was raised
_add_schema(dict, name, id) ==
    IF name \in DOMAIN dict
    THEN [raised |-> TRUE, dict |-> dict]
    ELSE [raised |-> FALSE, dict |-> dict @@ (name :> Leaf(id))]

\* _add_schema("Section", [label, parent_label], section) with unique =
\* True; a slot that holds a section cannot be descended into
_add_schema_under(dict, l, parent, id) ==
    IF l \notin DOMAIN dict
    THEN [raised |-> FALSE, dict |-> dict @@ (l :> Sub(parent :> id))]
    ELSE IF dict[l].leaf \/ parent \in DOMAIN dict[l].sub
    THEN [raised |-> TRUE, dict |-> dict]
    ELSE [raised |-> FALSE,
          dict |-> [dict EXCEPT ![l] = Sub(@.sub @@ (parent :> id))]]

\* load_schema, lines 155-172: the <field> children of a section, one by
\* one: the label is added to _schema["entries"], the field to
\* _schema["Field"]
RECURSIVE load_fields(_, _, _)
load_fields(st, section, flds) ==
    IF flds = <<>> \/ st.raised THEN st
    ELSE load_fields(
            [raised |-> _add_schema(st.schema.Field, Head(flds).id,
                                    Head(flds).id).raised,
             schema |->
                [st.schema EXCEPT
                    !.entries =
                        IF Head(flds).label \in DOMAIN @
                        THEN [@ EXCEPT ![Head(flds).label] = @ \cup {section}]
                        ELSE @ @@ (Head(flds).label :> {section}),
                    !.Field = _add_schema(@, Head(flds).id,
                                          Head(flds).id).dict]],
            section, Tail(flds))

\* load_schema, lines 149-153: one <section> element, by id and by label
\* and parent label; what was added stays when a later step raises
load_section(st, e) ==
    IF _add_schema(st.schema.Section, e.id, e.id).raised
    THEN [st EXCEPT !.raised = TRUE]
    ELSE IF _add_schema_under(_add_schema(st.schema.Section, e.id, e.id).dict,
                              e.label, e.parent, e.id).raised
    THEN [raised |-> TRUE,
          schema |-> [st.schema EXCEPT
                        !.Section = _add_schema(@, e.id, e.id).dict]]
    ELSE load_fields(
            [raised |-> FALSE,
             schema |-> [st.schema EXCEPT
                !.Section = _add_schema_under(_add_schema(@, e.id, e.id).dict,
                                e.label, e.parent, e.id).dict]],
            e.id, e.fields)

\* load_schema(cv = path): the <section> elements in the order iterwalk
\* yields them, until one raises
RECURSIVE load_schema(_, _)
load_schema(st, elems) ==
    IF elems = <<>> \/ st.raised THEN st
    ELSE load_schema(load_section(st, Head(elems)), Tail(elems))

(***************************************************************************)
(* Section.from_entries                                                    *)
(***************************************************************************)
\* code-point order of the names that occur (list.sort on strings)
NameOrder ==
    <<"A", "AB", "BC", "C", "Code", "Courses", "G", "Group", "I", "Item",
      "Level", "Memo", "Name",
      "Nope", "Notes", "Org", "Pmid", "Research", "Span", "Staff", "Teaching",
      "Title", "When", "Zzz">>
Rank(n) == CHOOSE i \in DOMAIN NameOrder : NameOrder[i] = n

\* entries.sort()
RECURSIVE SortNames(_)
SortNames(names) ==
    IF names = {} THEN <<>>
    ELSE LET m == CHOOSE n \in names : \A o \in names : Rank(n) <= Rank(o)
         IN  <<m>> \o SortNames(names \ {m})

sort(entries) == SortNames({entries[i] : i \in DOMAIN entries})

\* "".join(entries)
RECURSIVE join(_)
join(entries) ==
    IF entries = <<>> THEN "" ELSE Head(entries) \o join(Tail(entries))

\* the cache key: the concatenation, qualified when there is one entry
CacheName(entries) ==
    IF Len(entries) = 1 THEN join(entries) \o "--" ELSE join(entries)

\* the loop over the sorted entries: running intersections per cluster
RECURSIVE Clusters(_, _, _, _)
Clusters(lookup, entries, sets, numbers) ==
    IF entries = <<>> THEN [sets |-> sets, numbers |-> numbers]
    ELSE LET entry == Head(entries)
         IN  IF entry \notin DOMAIN lookup
             THEN Clusters(lookup, Tail(entries), sets, numbers)
             ELSE LET new_set == lookup[entry]
                      hit(i) == (sets[i] \cap new_set) # {}
                      sets2 == [i \in DOMAIN sets |->
                                  IF hit(i) THEN sets[i] \cap new_set
                                  ELSE sets[i]]
                      numbers2 == [i \in DOMAIN numbers |->
                                  IF hit(i) THEN numbers[i] + 1
                                  ELSE numbers[i]]
                      n_matches == Cardinality({i \in DOMAIN sets : hit(i)})
                  IN  IF n_matches = 0
                      THEN Clusters(lookup, Tail(entries),
                                    Append(sets2, new_set),
                                    Append(numbers2, 1))
                      ELSE Clusters(lookup, Tail(entries), sets2, numbers2)

Max(numbers) ==
    CHOOSE m \in {numbers[i] : i \in DOMAIN numbers} :
        \A i \in DOMAIN numbers : numbers[i] <= m

\* numbers.index(max(numbers)): the first position of the maximum
IndexOfMax(numbers) ==
    CHOOSE i \in DOMAIN numbers :
        /\ numbers[i] = Max(numbers)
        /\ \A j \in DOMAIN numbers : numbers[j] = Max(numbers) => i <= j

\* outcomes of from_entries
RetSection(id) == [kind |-> "section", id |-> id]
RetNone == [kind |-> "none", id |-> ""]
Raise == [kind |-> "raise", id |-> ""]

\* Section.from_entries(entries, error): the outcome and the "Section"
\* dictionary afterwards
from_entries(schema, entries0, error) ==
    LET entries == sort(entries0)
        name == CacheName(entries)
        cached == _get_schema(schema.Section, <<name>>)
        c == Clusters(schema.entries, entries, <<{}>>, <<0>>)
        index == IndexOfMax(c.numbers)
        section == CHOOSE s \in c.sets[index] : TRUE
        added == _add_schema(schema.Section, name, section)
        same == [out |-> Raise, schema |-> schema]
    IN  IF cached.ok THEN [out |-> RetSection(cached.id), schema |-> schema]
        ELSE IF Max(c.numbers) = 0 THEN [same EXCEPT !.out = RetNone]
        ELSE IF Cardinality(c.sets[index]) > 1
             THEN IF error THEN same ELSE [same EXCEPT !.out = RetNone]
        ELSE IF error /\ Len(c.numbers) > 2 THEN same
        ELSE IF added.raised THEN same
        ELSE [out |-> RetSection(section),
              schema |-> [schema EXCEPT !.Section = added.dict]]

(***************************************************************************)
(* Section properties                                                      *)
(***************************************************************************)
\* Section.fields: label -> field id of the <field> children
fields(s) ==
    LET own == {f \in FieldIds : FieldXml[f].section = s}
    IN  [l \in {FieldXml[f].label : f \in own} |->
            CHOOSE f \in own : FieldXml[f].label = l]

\* Section.sections: label -> section id of the <section> children
sections(s) ==
    LET own == {c \in SectionIds : SectionXml[c].parent = s}
    IN  [l \in {label(c) : c \in own} |-> CHOOSE c \in own : label(c) = l]

\* Section.parent_list: the ancestor sections, nearest first
RECURSIVE parent_list(_)
parent_list(s) ==
    IF SectionXml[s].parent = "" THEN <<>>
    ELSE <<SectionXml[s].parent>> \o parent_list(SectionXml[s].parent)

\* Section.parents: label -> ancestor; of two ancestors with one label the
\* one iterated last (the farther one) stays in the dictionary
parents(s) ==
    LET pl == parent_list(s)
        last(l) == CHOOSE i \in DOMAIN pl :
                      /\ label(pl[i]) = l
                      /\ \A j \in DOMAIN pl : label(pl[j]) = l => j <= i
    IN  [l \in {label(pl[i]) : i \in DOMAIN pl} |-> pl[last(l)]]

\* Section.is_dependent: some entry of parents has fields
is_dependent(s) ==
    \E key \in DOMAIN parents(s) : DOMAIN fields(parents(s)[key]) # {}

\* Section.is_container: neither the section nor an entry of parents has
\* fields
is_container(s) ==
    /\ DOMAIN fields(s) = {}
    /\ \A key \in DOMAIN parents(s) : DOMAIN fields(parents(s)[key]) = {}

\* Section.field(label)
Section_field(s, l) ==
    IF l \in DOMAIN fields(s) THEN Found(fields(s)[l]) ELSE SchemaError

\* Field.from_section(label, *args)
from_section(schema, l, keys) ==
    IF _get_schema(schema.Section, keys).ok
    THEN Section_field(_get_schema(schema.Section, keys).id, l)
    ELSE SchemaError

(***************************************************************************)
(* Values of the mapping format                                            *)
(*   a value is None, a string, a mapping (one record) or a list of        *)
(*   mappings; a record is a function from keys to values                  *)
(***************************************************************************)
VNone == [k |-> "none", s |-> "", recs |-> <<>>]
VStr(s) == [k |-> "str", s |-> s, recs |-> <<>>]
VDict(r) == [k |-> "dict", s |-> "", recs |-> <<r>>]
VList(q) == [k |-> "list", s |-> "", recs |-> q]

\* str(value) of None or a string
str(v) == IF v.k = "none" THEN "None" ELSE v.s

\* len(value) of a string or a mapping
len(v) == IF v.k = "dict" THEN Cardinality(DOMAIN v.recs[1]) ELSE Len(v.s)

(***************************************************************************)
(* Rule.validate and Field.validate                                        *)
(***************************************************************************)
\* Rule.parameters of a rule of kind 24: the label of the field the
\* parameter names
Rule_parameters(rule) == FieldXml[rule.par].label

\* Rule.validate, lines 1118-1124: whether a rule of kind 24 raises. The
\* other field is looked up in the record (KeyError when it is not there),
\* and when both values are non-empty the message is built from msg, a name
\* that is not bound (NameError)
Rule_raises(rule, value, entries) ==
    /\ rule.id = 24
    /\ \/ Rule_parameters(rule) \notin DOMAIN entries
       \/ /\ len(entries[Rule_parameters(rule)]) > 0
          /\ len(value) > 0

\* Rule.validate when it returns, for the rule kinds 8 (max length), 11
\* (required) and 24 (mutually exclusive, which returns nothing when it
\* returns); the other kinds are not checked. The diagnostic, or "" for
\* None.
Rule_validate(rule, value) ==
    IF rule.id = 8
    THEN IF len(value) > rule.par THEN "too long" ELSE ""
    ELSE IF rule.id = 11
    THEN IF len(value) = 0 THEN "null entries not allowed" ELSE ""
    ELSE ""

\* Field.validate: the diagnostics of the rules that failed
Field_validate(f, value) ==
    LET rules == FieldXml[f].rules
    IN  {Rule_validate(rules[i], value) : i \in DOMAIN rules} \ {""}

(***************************************************************************)
(* CCV.validate_content                                                    *)
(***************************************************************************)
\* lines 183-193: a mapping keeps its keys with stringified values (None
\* becomes ""), anything else becomes str(value); the result of strip() is
\* not assigned
CleanField(value) ==
    IF value.k = "dict"
    THEN VDict([key \in DOMAIN value.recs[1] |->
                  IF value.recs[1][key].k = "none" THEN VStr("")
                  ELSE VStr(str(value.recs[1][key]))])
    ELSE VStr(str(value))

\* the deletion as it would be if it only tested for None
DropBlankNoneOnly(section, out) ==
    LET blank == {entry \in DOMAIN fields(section) : out[entry] = VNone}
    IN  [entry \in DOMAIN out \ blank |-> out[entry]]

\* lines 227-230: a field whose value is blank is deleted
DropBlank(section, out) ==
    LET blank == {entry \in DOMAIN fields(section) :
                    out[entry] = VNone \/ out[entry] = VStr("")}
    IN  [entry \in DOMAIN out \ blank |-> out[entry]]

\* line 200: Section(entry, section.label), for a key of section.sections
Subsection(entry, section) ==
    _get_schema(LoadedSections, <<entry, label(section)>>).id

\* lines 166-232. The diagnostics of Field.validate are logged and the loop
\* continues; they change nothing in the record.
RECURSIVE validate_content(_, _)
validate_content(section, entries) ==
    LET flds == fields(section)
        subs == sections(section)
        clean(entry) ==
            IF entry \in DOMAIN flds THEN CleanField(entries[entry])
            ELSE IF entry \in DOMAIN subs /\ entries[entry].k \in {"dict", "list"}
                 THEN VList([i \in DOMAIN entries[entry].recs |->
                        validate_content(Subsection(entry, section),
                                         entries[entry].recs[i])])
                 ELSE entries[entry]
        out == [entry \in DOMAIN flds \cup DOMAIN entries |->
                  IF entry \in DOMAIN entries THEN clean(entry) ELSE VStr("")]
    IN  DropBlank(section, out)

\* lines 195-202: whether validate_content raises. The value of a
\* subsection is iterated: None cannot be, and the items of a text are
\* its characters, which have no keys(); an empty text has no items.
\* Lines 209-219: Field.validate is called with the value and the record
\* filled in so far, and raises when one of the rules does.
RECURSIVE validate_raises(_, _)
validate_raises(section, entries) ==
    \/ \E entry \in DOMAIN sections(section) \cap DOMAIN entries :
            \/ entries[entry].k = "none"
            \/ entries[entry].k = "str" /\ entries[entry].s # ""
            \/ \E i \in DOMAIN entries[entry].recs :
                    validate_raises(Subsection(entry, section),
                                    entries[entry].recs[i])
    \/ LET flds == fields(section)
           out == [entry \in DOMAIN flds |->
                     IF entry \in DOMAIN entries
                     THEN CleanField(entries[entry]) ELSE VStr("")]
       IN  \E entry \in DOMAIN flds :
               \E i \in DOMAIN FieldXml[flds[entry]].rules :
                   Rule_raises(FieldXml[flds[entry]].rules[i], out[entry], out)

\* the warnings validate_content logs for the fields of the record itself
ValidationErrors(section, entries) ==
    LET flds == fields(section)
    IN  {entry \in DOMAIN flds \cap DOMAIN entries :
            Field_validate(flds[entry], CleanField(entries[entry])) # {}}

(***************************************************************************)
(* The content model: CCV._content and CCV._index                          *)
(*   _index maps a section id to its container object; a slot of a         *)
(*   dictionary holds either that very object (ref) or a value of its own  *)
(***************************************************************************)
Ref(s) == [ref |-> s, val |-> VNone]
Val(v) == [ref |-> "", val |-> v]

ListObj(items) == [list |-> TRUE, items |-> items, map |-> EmptyMap]
DictObj(map) == [list |-> FALSE, items |-> <<>>, map |-> map]

\* the state a CCV operation works on: the schema dictionary, the content
\* model, the records stored so far per section, and whether the
\* operation raised
NewCCV(schema) ==
    [schema |-> schema, content |-> EmptyMap, index |-> EmptyMap,
     ingested |-> [s \in SectionIds |-> <<>>], raised |-> FALSE]

Raised(st) == [st EXCEPT !.raised = TRUE]

\* CCV.get_container, lines 150-163: the new container is put into the
\* parent's container (st1 is the state after the parent was looked up) and
\* into _index
NewContainer(st1, section, pl) ==
    LET container ==
            IF DOMAIN fields(section) # {} /\ ~is_dependent(section)
            THEN ListObj(<<>>) ELSE DictObj(EmptyMap)
        slot == (label(section) :> Ref(section))
    IN  IF st1.raised THEN st1
        ELSE IF Len(pl) = 0
        THEN [st1 EXCEPT !.content = slot @@ @,
                         !.index = (section :> container) @@ @]
        ELSE IF st1.index[pl[1]].list
        THEN Raised(st1)   \* a list cannot be indexed by a label
        ELSE [st1 EXCEPT
                !.index = (section :> container) @@
                          [@ EXCEPT ![pl[1]].map = slot @@ @]]

\* CCV.get_container
RECURSIVE get_container(_, _)
get_container(st, section) ==
    IF section \in DOMAIN st.index THEN st
    ELSE NewContainer(IF Len(parent_list(section)) > 0
                      THEN get_container(st, parent_list(section)[1])
                      ELSE st,
                      section, parent_list(section))

\* the section ids on the way from section down to target, target last
PathDown(section, target) ==
    LET up == <<target>> \o parent_list(target)
        n == CHOOSE i \in DOMAIN up : up[i] = section
    IN  [i \in 1..(n - 1) |-> up[n - i]]

RECURSIVE Concat(_)
Concat(qs) == IF qs = <<>> THEN <<>> ELSE Head(qs) \o Concat(Tail(qs))

\* the records of section target inside a record of section section
RECURSIVE RecordsFor(_, _, _)
RecordsFor(target, section, rec) ==
    IF section = target THEN <<rec>>
    ELSE LET child == PathDown(section, target)[1]
         IN  IF label(child) \notin DOMAIN rec THEN <<>>
             ELSE Concat([i \in DOMAIN rec[label(child)].recs |->
                     RecordsFor(target, child, rec[label(child)].recs[i])])

\* a section below a section that declares fields
HasFieldAncestor(s) ==
    \E i \in DOMAIN parent_list(s) : DOMAIN fields(parent_list(s)[i]) # {}

\* sections whose every ingested record is an entry of its own
RecordSections ==
    {s \in SectionIds : DOMAIN fields(s) # {} /\ ~HasFieldAncestor(s)}

\* the records stored by ingesting rec into section
Log(log, section, rec) ==
    [t \in SectionIds |->
        IF t \in RecordSections
           /\ section \in {t} \cup {parent_list(t)[i] : i \in DOMAIN parent_list(t)}
        THEN log[t] \o RecordsFor(t, section, rec)
        ELSE log[t]]

\* CCV.add_content, lines 274-277: the record is appended to a list
\* container, and a dictionary container is updated with it (st1 is the
\* state after get_container)
Put(st1, section, rec) ==
    LET container == st1.index[section]
        stored ==
            IF container.list
            THEN [container EXCEPT !.items = Append(@, rec)]
            ELSE [container EXCEPT
                    !.map = [key \in DOMAIN rec |-> Val(rec[key])] @@ @]
    IN  IF st1.raised THEN st1
        ELSE [st1 EXCEPT !.index[section] = stored,
                         !.ingested = Log(@, section, rec)]

\* CCV.add_content, lines 260-277: one record for a known section
Store(st, entries, section, validate) ==
    IF is_dependent(section) THEN Raised(st)
    ELSE IF entries.k # "dict" THEN Raised(st)
    ELSE IF validate /\ validate_raises(section, entries.recs[1])
    THEN Raised(st)
    ELSE Put(get_container(st, section), section,
             IF validate THEN validate_content(section, entries.recs[1])
             ELSE entries.recs[1])

\* a list value as the list of its items
Items(v) == [i \in DOMAIN v.recs |-> VDict(v.recs[i])]

\* CCV.add_content with a section given, lines 253-277: a list is split
\* up, item by item
RECURSIVE AddItems(_, _, _, _)
AddItems(st, items, section, validate) ==
    IF items = <<>> \/ st.raised THEN st
    ELSE AddItems(
            IF Head(items).k = "list"
            THEN AddItems(st, Items(Head(items)), section, validate)
            ELSE Store(st, Head(items), section, validate),
            Tail(items), section, validate)

\* CCV.add_content, lines 247-251: a root-level mapping, key by key
RECURSIVE AddRoot(_, _, _, _)
AddRoot(st, keys, entries, validate) ==
    IF keys = <<>> \/ st.raised THEN st
    ELSE LET key == Head(keys)
             section == _get_schema(st.schema.Section, <<key, "None">>)
         IN  IF ~section.ok THEN Raised(st)
             ELSE AddRoot(AddItems(st, <<entries[key]>>, section.id, validate),
                          Tail(keys), entries, validate)

\* CCV.add_content, lines 237-243: the section the record is for. The
\* strict inference is tried first and, if it raises, the permissive one.
Permissive(strict, schema, keys) ==
    IF strict.out.kind = "raise" THEN from_entries(schema, keys, FALSE)
    ELSE strict

Resolve(schema, entries, section) ==
    IF section # ""
    THEN [out |-> RetSection(section), schema |-> schema]
    ELSE IF entries.k # "dict"
    THEN [out |-> Raise, schema |-> schema]   \* a list has no keys()
    ELSE Permissive(
            from_entries(schema, SortNames(DOMAIN entries.recs[1]), TRUE),
            schema, SortNames(DOMAIN entries.recs[1]))

\* CCV.add_content, lines 245-277, found being the section the record is
\* for
AddResolved(st, found, entries, validate) ==
    LET st1 == [st EXCEPT !.schema = found.schema]
    IN  IF found.out.kind = "raise" THEN Raised(st1)
        ELSE IF found.out.kind = "none"
        THEN AddRoot(st1, SortNames(DOMAIN entries.recs[1]),
                     entries.recs[1], validate)
        ELSE AddItems(st1, <<entries>>, found.out.id, validate)

\* CCV.add_content(entries, section, validate); section "" stands for None
add_content(st, entries, section, validate) ==
    AddResolved(st, Resolve(st.schema, entries, section), entries, validate)

(***************************************************************************)
(* XML import: CCV.parse_xml and CCV.__init__                              *)
(*   an element is [id, fields, children]: the section id, the text of     *)
(*   the value of each <field> child by field id, the <section> children   *)
(***************************************************************************)
\* lines 122-134 as they would be if a second element of a section took
\* the place of the first
add_sectionKeepLast(content, l, parsed) ==
    IF l \in DOMAIN content
    THEN [content EXCEPT ![l] =
            IF @.k = "dict" THEN VList(<<parsed>>)
            ELSE VList(Append(@.recs, parsed))]
    ELSE content @@ (l :> VDict(parsed))

\* lines 122-134: the parsed <section> child goes under the label of its
\* section; a record already there is first put into a list, and the new
\* one is appended to the list. No field of the schema has the label of a
\* section next to it, so what is already there is a record or a list.
add_section(content, l, parsed) ==
    IF l \in DOMAIN content
    THEN [content EXCEPT ![l] =
            IF @.k = "dict" THEN VList(<<@.recs[1], parsed>>)
            ELSE VList(Append(@.recs, parsed))]
    ELSE content @@ (l :> VDict(parsed))

RECURSIVE parse_xml(_)
RECURSIVE parse_sections(_, _)
\* lines 120-134: the <section> children, in document order
parse_sections(content, kids) ==
    IF kids = <<>> THEN content
    ELSE parse_sections(
            add_section(content, label(Head(kids).id), parse_xml(Head(kids))),
            Tail(kids))

\* CCV.parse_xml(xml): the values of the <field> children by label, then
\* the <section> children
parse_xml(xml) ==
    LET fids == DOMAIN xml.fields
        flabels == {FieldXml[f].label : f \in fids}
    IN  parse_sections(
            [l \in flabels |->
                VStr(xml.fields[CHOOSE f \in fids : FieldXml[f].label = l])],
            xml.children)

\* etree.iterwalk(xml, tag = "section"): every element after its children
RECURSIVE iterwalk(_)
iterwalk(elements) ==
    IF elements = <<>> THEN <<>>
    ELSE iterwalk(Head(elements).children) \o <<Head(elements)>>
         \o iterwalk(Tail(elements))

\* CCV.__init__, lines 73-77: the element is parsed and added, unless its
\* section is dependent
ImportElement(st1, element) ==
    IF st1.raised \/ is_dependent(element.id) THEN st1
    ELSE add_content(st1, VDict(parse_xml(element)), element.id, TRUE)

\* CCV.__init__, lines 68-77
RECURSIVE ImportSections(_, _)
ImportSections(st, elements) ==
    IF elements = <<>> \/ st.raised THEN st
    ELSE ImportSections(
            ImportElement(IF is_container(Head(elements).id)
                          THEN get_container(st, Head(elements).id)
                          ELSE st,
                          Head(elements)),
            Tail(elements))

\* the records of the imported document, per section, in document order
ImportLog(elements) ==
    [t \in SectionIds |->
        IF t \notin RecordSections THEN <<>>
        ELSE LET own == SelectSeq(iterwalk(elements), LAMBDA e : e.id = t)
             IN  [i \in DOMAIN own |-> validate_content(t, parse_xml(own[i]))]]

\* CCV.__init__(xml_path)
CCV_init(schema, elements) ==
    LET st == ImportSections(NewCCV(schema), iterwalk(elements))
    IN  [st EXCEPT !.ingested = ImportLog(elements)]

(***************************************************************************)
(* The content reachable from the root                                     *)
(***************************************************************************)
\* the entries of section target found by following, from a dictionary,
\* the labels of the sections on path
RECURSIVE ReachFrom(_, _, _, _)
ReachFrom(index, map, path, target) ==
    LET child == Head(path)
        slot == map[label(child)]
    IN  IF label(child) \notin DOMAIN map THEN <<>>
        ELSE IF slot.ref = ""
        THEN Concat([i \in DOMAIN slot.val.recs |->
                        RecordsFor(target, child, slot.val.recs[i])])
        ELSE IF index[slot.ref].list THEN index[slot.ref].items
        ELSE IF Len(path) = 1 THEN <<>>
        ELSE ReachFrom(index, index[slot.ref].map, Tail(path), target)

\* top-level section first, target last
PathFromRoot(target) ==
    LET up == <<target>> \o parent_list(target)
    IN  [i \in DOMAIN up |-> up[Len(up) + 1 - i]]

Reachable(content, index, target) ==
    ReachFrom(index, content, PathFromRoot(target), target)

(***************************************************************************)
(* The schema definition: tables of cv-lov.xml and cv-ref-table.xml        *)
(***************************************************************************)
\* <table id=.. englishName=..> of cv-lov.xml and its <code> children
LovXml ==
    [ l1 |-> [label |-> "Course Level",
              values |-> << [id |-> "v1", label |-> "Undergraduate"],
                            [id |-> "v2", label |-> "Graduate"] >>],
      l2 |-> [label |-> "Country",
              values |-> << [id |-> "c1", label |-> "Canada"],
                            [id |-> "c2", label |-> "France"] >>] ]

LovIds == DOMAIN LovXml

\* a reference table of cv-ref-table.xml, as the container load_schema
\* builds: values are the refTable/value elements, rows the table/value
\* elements (the header rows with id "-1" first, then id -> label), fields
\* the table/field elements with the ids of their children
RefXml ==
    [ r1 |-> [label |-> "Agency",
              values |-> << [id |-> "a1", label |-> "NSERC"],
                            [id |-> "a2", label |-> "CIHR"] >>,
              rows |-> << >>,
              fields |-> << [id |-> "a1", children |-> << >>],
                            [id |-> "a2", children |-> << >>] >>],
      r2 |-> [label |-> "Subdivision",
              values |-> << [id |-> "p1", label |-> "Nova Scotia"],
                            [id |-> "p2", label |-> "Ontario"],
                            [id |-> "p3", label |-> "Bretagne"] >>,
              rows |-> << [id |-> "-1", label |-> "Country (List Of Values)"],
                          [id |-> "c1", label |-> "Canada"],
                          [id |-> "c2", label |-> "France"] >>,
              fields |-> << [id |-> "p1", children |-> <<"c1">>],
                            [id |-> "p2", children |-> <<"c1">>],
                            [id |-> "p3", children |-> <<"c2">>] >>],
      r3 |-> [label |-> "Organization",
              values |-> << [id |-> "o1", label |-> "Dalhousie University"],
                            [id |-> "o2", label |-> "Queen's University"],
                            [id |-> "o3", label |-> "Rennes 1"] >>,
              rows |-> << [id |-> "-1", label |-> "Country (List Of Values)"],
                          [id |-> "-1",
                           label |-> "Subdivision (Reference Table)"],
                          [id |-> "c1", label |-> "Canada"],
                          [id |-> "c2", label |-> "France"],
                          [id |-> "p1", label |-> "Nova Scotia"],
                          [id |-> "p2", label |-> "Ontario"],
                          [id |-> "p3", label |-> "Bretagne"] >>,
              fields |-> << [id |-> "o1", children |-> <<"c1", "p1">>],
                            [id |-> "o2", children |-> <<"c1", "p2">>],
                            [id |-> "o3", children |-> <<"c2", "p3">>] >>] ]

RefIds == DOMAIN RefXml

\* _schema["LOV"] and _schema["Reference"] after load_schema: [id] and
\* [label]
LoadedLOV ==
    [k \in LovIds \cup {LovXml[l].label : l \in LovIds} |->
        IF k \in LovIds THEN Leaf(k)
        ELSE Leaf(CHOOSE l \in LovIds : LovXml[l].label = k)]

LoadedReference ==
    [k \in RefIds \cup {RefXml[r].label : r \in RefIds} |->
        IF k \in RefIds THEN Leaf(k)
        ELSE Leaf(CHOOSE r \in RefIds : RefXml[r].label = k)]

\* LOV(key) and Reference(key): the lookup the metaclass Schema makes
LOV(key) == _get_schema(LoadedLOV, <<key>>)
Reference(key) == _get_schema(LoadedReference, <<key>>)

(***************************************************************************)
(* Strings                                                                 *)
(***************************************************************************)
\* the position of the first character c of s at or after position i, 0
\* when there is none
find(s, c, i) ==
    LET hits == {p \in i..Len(s) : SubSeq(s, p, p) = c}
    IN  IF hits = {} THEN 0 ELSE CHOOSE p \in hits : \A q \in hits : p <= q

\* where the run of blanks that ends just before position p begins
RECURSIVE blanks_before(_, _)
blanks_before(s, p) ==
    IF p > 1 /\ SubSeq(s, p - 1, p - 1) = " " THEN blanks_before(s, p - 1)
    ELSE p

\* the closing parenthesis that follows the first opening one, 0 if none
closing(s) ==
    IF find(s, "(", 1) = 0 THEN 0 ELSE find(s, ")", find(s, "(", 1) + 1)

\* re.sub(".*?\((.*?)\).*", r"\1", label): what the first parenthesis
\* holds, the label itself when it has none
label_type(s) ==
    IF closing(s) = 0 THEN s
    ELSE SubSeq(s, find(s, "(", 1) + 1, closing(s) - 1)

\* re.sub("[ ]*\(.*?\)", "", label): every parenthesis is removed,
\* together with the blanks before it
RECURSIVE strip_parentheses(_)
strip_parentheses(s) ==
    IF closing(s) = 0 THEN s
    ELSE SubSeq(s, 1, blanks_before(s, find(s, "(", 1)) - 1)
         \o strip_parentheses(SubSeq(s, closing(s) + 1, Len(s)))

(***************************************************************************)
(* XML elements: tag, attributes, text, children                           *)
(***************************************************************************)
Element(tag, attrib, text, children) ==
    [tag |-> tag, attrib |-> attrib, text |-> text, children |-> children]

NoElement == Element("", EmptyMap, "", <<>>)

\* the outcome of a to_xml call: the element, or an exception
Built(elem) == [raised |-> FALSE, elem |-> elem]
Failed == [raised |-> TRUE, elem |-> NoElement]

(***************************************************************************)
(* LOV and Reference                                                       *)
(***************************************************************************)
\* ReferenceType.values and get_value: the entry with the label; of two
\* entries with one label the dictionary keeps the later one
get_value(values_list, value) ==
    LET hits == {i \in DOMAIN values_list : values_list[i].label = value}
    IN  IF hits = {} THEN [ok |-> FALSE, at |-> 0]
        ELSE [ok |-> TRUE,
              at |-> CHOOSE i \in hits : \A j \in hits : j <= i]

\* LOV.values_list: the children of the table
LOV_values_list(lov) == LovXml[lov].values

\* the <lov> element for an entry of the table
LOV_element(lov, entry) == Element("lov", [id |-> lov], entry.label, <<>>)

\* LOV.to_xml(value)
LOV_to_xml(lov, value) ==
    IF get_value(LOV_values_list(lov), value).ok
    THEN Built(LOV_element(lov,
            LOV_values_list(lov)[get_value(LOV_values_list(lov), value).at]))
    ELSE Failed

\* Reference.values_list, lines 516-521: the header rows, up to the first
\* row whose id is not "-1"
RECURSIVE header_rows(_)
header_rows(rows) ==
    IF rows = <<>> \/ Head(rows).id # "-1" THEN <<>>
    ELSE <<Head(rows)>> \o header_rows(Tail(rows))

\* lines 523-532: the id a header row stands for
header_id(row) ==
    IF label_type(row.label) = "List Of Values"
    THEN LOV(strip_parentheses(row.label))
    ELSE IF label_type(row.label) = "Reference Table"
    THEN Reference(strip_parentheses(row.label))
    ELSE Found(row.id)

\* lines 514-535: the ids of the classification levels, then the id of the
\* table itself
table_ids(ref) ==
    [i \in DOMAIN header_rows(RefXml[ref].rows) |->
        header_id(header_rows(RefXml[ref].rows)[i]).id] \o <<ref>>

\* lines 541-546: id -> label over all rows, a later row replacing an
\* earlier one with the same id
lookup(ref) ==
    LET rows == RefXml[ref].rows
        last(id) == CHOOSE i \in DOMAIN rows :
                        /\ rows[i].id = id
                        /\ \A j \in DOMAIN rows : rows[j].id = id => j <= i
    IN  [id \in {rows[i].id : i \in DOMAIN rows} |-> rows[last(id)].label]

\* line 553: the labels of the children of a table/field element
table_values(ref, field) ==
    [i \in DOMAIN field.children |-> lookup(ref)[field.children[i]]]

\* whether values_list raises: a header names an unknown table, a child id
\* has no row, or a field has no refTable value
values_list_raises(ref) ==
    LET x == RefXml[ref]
    IN  \/ \E i \in DOMAIN header_rows(x.rows) :
              ~header_id(header_rows(x.rows)[i]).ok
        \/ \E i \in DOMAIN x.fields :
              \/ \E j \in DOMAIN x.fields[i].children :
                    x.fields[i].children[j] \notin DOMAIN lookup(ref)
              \/ \A j \in DOMAIN x.values : x.values[j].id # x.fields[i].id

\* Reference.values_list: per table/field element the refTable value with
\* its id, in the order of the fields; entry.values is kept in ref_values
Reference_values_list(ref) ==
    LET x == RefXml[ref]
    IN  [i \in DOMAIN x.fields |->
            x.values[CHOOSE j \in DOMAIN x.values :
                        x.values[j].id = x.fields[i].id]]

\* entry.values of every entry when values_list has just been computed
InitialValues ==
    [ref \in RefIds |->
        [id \in {RefXml[ref].fields[i].id : i \in DOMAIN RefXml[ref].fields}
            |-> table_values(ref,
                    RefXml[ref].fields[CHOOSE i \in DOMAIN RefXml[ref].fields :
                        RefXml[ref].fields[i].id = id])]]

\* the loop as it would be if it ran over the values
linkedWithPerValue(ids, values) ==
    [i \in DOMAIN values |->
        Element("linkedWith",
                [label |-> "x", value |-> values[i],
                 refOrLovId |-> ids[IF i <= Len(ids) THEN i ELSE Len(ids)]],
                "", <<>>)]

\* lines 577-586: one linkedWith per id
linkedWith(ids, values) ==
    [i \in DOMAIN ids |->
        Element("linkedWith",
                [label |-> "x", value |-> values[i], refOrLovId |-> ids[i]],
                "", <<>>)]

\* Reference.to_xml for an entry, values being entry.values after the
\* append of line 575
refTable(entry, ids, values) ==
    IF Len(values) < Len(ids) THEN Failed     \* values[i]: IndexError
    ELSE Built(Element("refTable", [refValueId |-> entry.id], "",
                       linkedWith(ids, values)))

\* Reference.to_xml as it would be if it made one linkedWith for each of
\* the last values of entry.values instead of the first ones
Reference_to_xmlLastValues(ref, values, value) ==
    LET found == get_value(Reference_values_list(ref), value)
        entry == Reference_values_list(ref)[found.at]
        appended == Append(values[ref][entry.id], entry.label)
        n == Len(table_ids(ref))
    IN  IF values_list_raises(ref) \/ ~found.ok
        THEN [out |-> Failed, values |-> values]
        ELSE [out |-> refTable(entry, table_ids(ref),
                        IF Len(appended) < n THEN appended
                        ELSE SubSeq(appended, Len(appended) - n + 1,
                                    Len(appended))),
              values |-> [values EXCEPT ![ref][entry.id] = appended]]

\* Reference.to_xml(value): the outcome and entry.values of all entries
\* afterwards
Reference_to_xml(ref, values, value) ==
    LET found == get_value(Reference_values_list(ref), value)
        entry == Reference_values_list(ref)[found.at]
        appended == Append(values[ref][entry.id], entry.label)
    IN  IF values_list_raises(ref) \/ ~found.ok
        THEN [out |-> Failed, values |-> values]
        ELSE [out |-> refTable(entry, table_ids(ref), appended),
              values |-> [values EXCEPT ![ref][entry.id] = appended]]

(***************************************************************************)
(* Type.to_xml and Field.to_xml                                            *)
(***************************************************************************)
\* the end of the run of blanks and tabs that begins at position p
RECURSIVE blanks_after(_, _)
blanks_after(s, p) ==
    IF p <= Len(s) /\ SubSeq(s, p, p) \in {" ", "\t"}
    THEN blanks_after(s, p + 1)
    ELSE p

RECURSIVE blanks_tabs_before(_, _)
blanks_tabs_before(s, p) ==
    IF p > 1 /\ SubSeq(s, p - 1, p - 1) \in {" ", "\t"}
    THEN blanks_tabs_before(s, p - 1)
    ELSE p

\* re.sub("[ \t]*\n{1}[ \t]*", " ", value): every newline, with the blanks
\* and tabs around it, becomes one blank
RECURSIVE join_lines(_)
join_lines(s) ==
    IF find(s, "\n", 1) = 0 THEN s
    ELSE SubSeq(s, 1, blanks_tabs_before(s, find(s, "\n", 1)) - 1) \o " "
         \o join_lines(SubSeq(s, blanks_after(s, find(s, "\n", 1) + 1),
                              Len(s)))

\* the <type> elements of the schema: id -> name
TypeXml ==
    [ t1 |-> "String", t2 |-> "Integer", t3 |-> "LOV", t4 |-> "Reference",
      t5 |-> "Datetime", t6 |-> "Pubmed", t7 |-> "Elapsed-Time" ]

\* _schema["Type"] after load_schema: [id] and [label]; no type is left out
\* or refused for its name
LoadedType ==
    [k \in DOMAIN TypeXml \cup {TypeXml[t] : t \in DOMAIN TypeXml} |->
        IF k \in DOMAIN TypeXml THEN Leaf(k)
        ELSE Leaf(CHOOSE t \in DOMAIN TypeXml : TypeXml[t] = k)]

\* Type(key)
Type(key) == _get_schema(LoadedType, <<key>>)

\* the types Type.to_xml names as not supported, line 405
UnsupportedTypes == {"Datetime", "Pubmed", "Elapsed-Time"}

\* Type.to_xml as it would be if an unsupported type were written as text
Type_to_xmlAsText(type, value) ==
    IF type = "Integer"
    THEN Built(Element("value", [type |-> "Number"], join_lines(value), <<>>))
    ELSE Built(Element("value", [type |-> type], join_lines(value), <<>>))

\* Type.to_xml(value) for a string value: the basic types give a <value>
\* element; the unsupported types, LOV, Reference and an unknown name each
\* raise SchemaError
Type_to_xml(type, value) ==
    IF type = "String"
    THEN Built(Element("value", [type |-> "String"], join_lines(value), <<>>))
    ELSE IF type = "Integer"
    THEN Built(Element("value", [type |-> "Number"], join_lines(value), <<>>))
    ELSE IF type \in UnsupportedTypes THEN Failed
    ELSE IF type \in {"LOV", "Reference"} THEN Failed
    ELSE Failed

\* Field.type: Type(type_id)
Field_type(f) == Type(FieldXml[f].type)

\* Field.reference: the table behind a LOV or Reference field; the lookup
\* key is lookupId, or the label of the field when it has none
Field_reference(f) ==
    LET key == IF FieldXml[f].lookup # "" THEN FieldXml[f].lookup
               ELSE FieldXml[f].label
    IN  IF TypeXml[Field_type(f).id] = "LOV" THEN LOV(key)
        ELSE IF TypeXml[Field_type(f).id] = "Reference" THEN Reference(key)
        ELSE Found("")

\* the <field> element around the element of the value
Field_element(f, r) ==
    [out |-> IF r.out.raised THEN Failed
             ELSE Built(Element("field",
                        [id |-> f, label |-> FieldXml[f].label], "",
                        <<r.out.elem>>)),
     values |-> r.values]

\* Field.to_xml(value): the outcome and entry.values of all entries
\* afterwards
Field_to_xml(f, values, value) ==
    IF ~Field_reference(f).ok THEN [out |-> Failed, values |-> values]
    ELSE IF FieldXml[f].type = "LOV"
    THEN Field_element(f, [out |-> LOV_to_xml(Field_reference(f).id, value),
                           values |-> values])
    ELSE IF FieldXml[f].type = "Reference"
    THEN Field_element(f,
            Reference_to_xml(Field_reference(f).id, values, value))
    ELSE Field_element(f, [out |-> Type_to_xml(TypeXml[Field_type(f).id],
                                               value),
                           values |-> values])

(***************************************************************************)
(* The flattened content: CCV.get_content and CCV.content_to_list          *)
(***************************************************************************)
\* Root(): the schema node above the top-level sections. It has no fields,
\* and its sections are the sections without a parent section.
Root == ""

\* Root().to_xml(): the root element of the exchange document. Its time
\* stamp is left out: two documents written in one run are compared without
\* it.
Root_to_xml(children) == Element("generic-cv", [lang |-> "en"], "", children)

\* Section.to_xml()
Section_to_xml(s, children) ==
    Element("section", [id |-> s, label |-> label(s)], "", children)

\* the value a slot of the content model holds: a container of _index, with
\* the values of its own slots, or the value stored in the slot
RECURSIVE Plain(_, _)
Plain(index, cell) ==
    IF cell.ref = "" THEN cell.val
    ELSE IF index[cell.ref].list THEN VList(index[cell.ref].items)
    ELSE VDict([key \in DOMAIN index[cell.ref].map |->
                    Plain(index, index[cell.ref].map[key])])

\* self._content as a mapping of values
PlainContent(content, index) ==
    [key \in DOMAIN content |-> Plain(index, content[key])]

\* the order of the elements in cv.xml
DocumentOrder ==
    <<"s1", "s2", "s3", "s4", "s5", "s6", "s7", "s10", "s11", "s12",
      "f1", "f2", "f3", "f4", "f12", "f13", "f14", "f5", "f6", "f7", "f8",
      "f9", "f10", "f11", "f15", "f16">>

Position(id) == CHOOSE i \in DOMAIN DocumentOrder : DocumentOrder[i] = id

\* XML.order of a section or a field: the orderIndex attribute, a string
order(id) ==
    IF id \in SectionIds THEN SectionXml[id].order ELSE FieldXml[id].order

\* a < b for strings of digits, character by character
Digits == <<"0", "1", "2", "3", "4", "5", "6", "7", "8", "9">>
DigitRank(c) == CHOOSE i \in DOMAIN Digits : Digits[i] = c

RECURSIVE str_less(_, _)
str_less(a, b) ==
    IF b = "" THEN FALSE
    ELSE IF a = "" THEN TRUE
    ELSE IF SubSeq(a, 1, 1) # SubSeq(b, 1, 1)
    THEN DigitRank(SubSeq(a, 1, 1)) < DigitRank(SubSeq(b, 1, 1))
    ELSE str_less(SubSeq(a, 2, Len(a)), SubSeq(b, 2, Len(b)))

\* list.sort(key = lambda x: x.schema.order) of the schema nodes in ids:
\* ascending order strings; nodes with equal order keep the order of the
\* schema dictionary, which is the order of the elements
RECURSIVE sort_by_order(_)
sort_by_order(ids) ==
    IF ids = {} THEN <<>>
    ELSE LET first == CHOOSE a \in ids : \A b \in ids \ {a} :
                        \/ str_less(order(a), order(b))
                        \/ /\ order(a) = order(b)
                           /\ Position(a) < Position(b)
         IN  <<first>> \o sort_by_order(ids \ {first})

\* the sortOnField<i> / sortOnFieldDirection<i> attributes of the <section>
\* elements: the courses are listed by Code, and by Title downwards among
\* equal codes; the other sections have none
SortXml ==
    [ s2 |-> << [field |-> "f1", direction |-> "asc"],
                [field |-> "f2", direction |-> "desc"] >> ]

\* Section.sorting: the (field label, direction) pairs, first key first
sorting(s) ==
    IF s \notin DOMAIN SortXml THEN <<>>
    ELSE [i \in DOMAIN SortXml[s] |->
            [field |-> FieldXml[SortXml[s][i].field].label,
             direction |-> SortXml[s][i].direction]]

\* the characters of the stored texts, in code point order
CodePoints == " .0123456789abcdefghijklmnopqrstuvwxyz"

\* a < b for two texts, as Python compares strings
text_less(a, b) ==
    LET both == 1..(IF Len(a) < Len(b) THEN Len(a) ELSE Len(b))
        diff == {p \in both : SubSeq(a, p, p) # SubSeq(b, p, p)}
        p == CHOOSE q \in diff : \A r \in diff : q <= r
    IN  IF diff = {} THEN Len(a) < Len(b)
        ELSE find(CodePoints, SubSeq(a, p, p), 1)
             < find(CodePoints, SubSeq(b, p, p), 1)

\* key = lambda x: x[field] if field in x else "". The sort fields of the
\* records of this model hold texts only.
sort_key(x, field) == IF field \in DOMAIN x THEN x[field].s ELSE ""

\* list.sort(key, reverse) on the items at the positions left: a stable
\* sort, and with reverse the items of equal key keep their order too
RECURSIVE sort_pass(_, _, _, _)
sort_pass(items, left, field, reverse) ==
    IF left = {} THEN <<>>
    ELSE LET before(i, j) ==
                 \/ IF reverse
                    THEN text_less(sort_key(items[j], field),
                                   sort_key(items[i], field))
                    ELSE text_less(sort_key(items[i], field),
                                   sort_key(items[j], field))
                 \/ /\ sort_key(items[i], field) = sort_key(items[j], field)
                    /\ i < j
             first == CHOOSE i \in left : \A j \in left \ {i} : before(i, j)
         IN  <<items[first]>> \o sort_pass(items, left \ {first}, field, reverse)

\* lines 341-346: one sort of the list per key, in the order given
RECURSIVE sort_passes(_, _)
sort_passes(items, keys) ==
    IF keys = <<>> THEN items
    ELSE sort_passes(
            sort_pass(items, DOMAIN items, Head(keys).field,
                      Head(keys).direction # "asc"),
            Tail(keys))

\* reversed(schema.sorting)
reversed(keys) == [i \in DOMAIN keys |-> keys[Len(keys) + 1 - i]]

\* content_to_list, lines 339-347, as it would be if the sort keys were
\* taken in the declared order, the first one last
sort_itemsDeclaredOrder(items, keys) == sort_passes(items, keys)

\* content_to_list, lines 339-347: the list is sorted by the last key
\* first, so that the first key is the most significant
sort_items(items, keys) == sort_passes(items, reversed(keys))

\* an entry: a field with its value, or a section with its flattened
\* contents: the entries of one mapping (single) or one list of entries
\* per item of a list
FieldEntry(f, value) ==
    [kind |-> "field", id |-> f, value |-> value, single |-> FALSE,
     items |-> <<>>]
SectionEntry(s, single, items) ==
    [kind |-> "section", id |-> s, value |-> VNone, single |-> single,
     items |-> items]
\* a section whose contents are neither a mapping nor a list
BadEntry(s) ==
    [kind |-> "error", id |-> s, value |-> VNone, single |-> FALSE,
     items |-> <<>>]

\* CCV.content_to_list(schema, entries) for a mapping
RECURSIVE content_to_list(_, _)
content_to_list(schema, entries) ==
    LET flds == fields(schema)
        subs == sections(schema)
        field_list ==
            sort_by_order({flds[key] : key \in DOMAIN flds \cap DOMAIN entries})
        section_list ==
            sort_by_order({subs[key] : key \in DOMAIN subs \cap DOMAIN entries})
        contents(s) == entries[label(s)]
        section(s) ==
            IF contents(s).k = "dict"
            THEN SectionEntry(s, TRUE,
                    <<content_to_list(s, contents(s).recs[1])>>)
            ELSE IF contents(s).k = "list"
            THEN SectionEntry(s, FALSE,
                    [i \in DOMAIN contents(s).recs |->
                        content_to_list(s,
                            sort_items(contents(s).recs, sorting(s))[i])])
            ELSE BadEntry(s)
    IN  [i \in DOMAIN field_list |->
            FieldEntry(field_list[i],
                       entries[FieldXml[field_list[i]].label])]
        \o [i \in DOMAIN section_list |-> section(section_list[i])]

\* CCV.get_content(Root())
get_content(content, index) ==
    content_to_list(Root, PlainContent(content, index))

\* section.contents.sort(...), line 343, sorts the stored list itself: a
\* record as content_to_list leaves it, every list of records of a known
\* subsection in the order of the sort keys of that subsection
RECURSIVE sorted_record(_, _)
sorted_record(schema, rec) ==
    LET subs == sections(schema)
        sub(key) == subs[key]
    IN  [key \in DOMAIN rec |->
            IF key \notin DOMAIN subs THEN rec[key]
            ELSE IF rec[key].k = "dict"
            THEN VDict(sorted_record(sub(key), rec[key].recs[1]))
            ELSE IF rec[key].k = "list"
            THEN VList(sort_items(
                        [i \in DOMAIN rec[key].recs |->
                            sorted_record(sub(key), rec[key].recs[i])],
                        sorting(sub(key))))
            ELSE rec[key]]

\* the containers of _index as content_to_list leaves them, for the slots
\* keys of the mapping map of the section schema; the result is the index
\* and the mapping
RECURSIVE sorted_slots(_, _, _, _)
sorted_slots(index, schema, map, keys) ==
    IF keys = {} THEN [index |-> index, map |-> map]
    ELSE LET key == CHOOSE k \in keys : TRUE
             sub == sections(schema)[key]
             cell == map[key]
             rest(ix, mp) == sorted_slots(ix, schema, mp, keys \ {key})
         IN  IF cell.ref = ""
             THEN rest(index,
                       [map EXCEPT ![key] =
                            Val(sorted_record(schema,
                                    (key :> cell.val))[key])])
             ELSE IF index[cell.ref].list
             THEN rest([index EXCEPT ![cell.ref].items =
                            sort_items(
                                [i \in DOMAIN @ |-> sorted_record(sub, @[i])],
                                sorting(sub))],
                       map)
             ELSE LET below == sorted_slots(index, sub, index[cell.ref].map,
                                   DOMAIN index[cell.ref].map
                                       \cap DOMAIN sections(sub))
                  IN  rest([below.index EXCEPT ![cell.ref].map = below.map],
                           map)

\* _content and _index after CCV.get_content(Root())
sorted_content(content, index) ==
    LET r == sorted_slots(index, Root, content,
                          DOMAIN content \cap DOMAIN sections(Root))
    IN  [content |-> r.map, index |-> r.index]

(***************************************************************************)
(* CCV.content_to_xml and CCV.to_xml                                       *)
(***************************************************************************)
\* the elements made so far, or an exception
Elements(q) == [raised |-> FALSE, elems |-> q]
NoElements == [raised |-> TRUE, elems |-> <<>>]

\* xml.append(...) after the elements before it
Then(a, b) ==
    IF a.raised \/ b.raised THEN NoElements
    ELSE Elements(a.elems \o b.elems)

\* one element from the outcome of a to_xml call
One(r) == IF r.raised THEN NoElements ELSE Elements(<<r.elem>>)

\* the section element around its children
Container(s, r) ==
    IF r.raised THEN NoElements
    ELSE Elements(<<Section_to_xml(s, r.elems)>>)

\* content[0] raises IndexError on an empty list
EmptyContent(entry) ==
    IF entry.single THEN entry.items[1] = <<>> ELSE entry.items = <<>>

\* CCV.content_to_xml(xml, entries): the children appended to xml.
\* entry.values of a Reference entry grows at its end with every call; the
\* elements are made from the positions before that (see Reference.to_xml)
RECURSIVE content_to_xml(_, _)
RECURSIVE containers(_, _, _)
containers(values, s, items) ==
    IF items = <<>> THEN Elements(<<>>)
    ELSE Then(Container(s, content_to_xml(values, Head(items))),
              containers(values, s, Tail(items)))

content_to_xml(values, entries) ==
    IF entries = <<>> THEN Elements(<<>>)
    ELSE IF Head(entries).kind = "field"
    THEN Then(One(Field_to_xml(Head(entries).id, values,
                               str(Head(entries).value)).out),
              content_to_xml(values, Tail(entries)))
    ELSE IF Head(entries).kind = "error" \/ EmptyContent(Head(entries))
    THEN NoElements
    ELSE Then(containers(values, Head(entries).id, Head(entries).items),
              content_to_xml(values, Tail(entries)))

\* the document, or an exception
Document(r) ==
    IF r.raised THEN Failed ELSE Built(Root_to_xml(r.elems))

\* CCV.to_xml(path): the document written
CCV_to_xml(content, index, values) ==
    Document(content_to_xml(values, get_content(content, index)))

(***************************************************************************)
(* textwrap.TextWrapper.wrap, as _wrapper is configured:                   *)
(* drop_whitespace = False, replace_whitespace = True                      *)
(***************************************************************************)
Width == 80              \* schema.py:27
MaxLines == 2            \* schema.py:28
MaxLinesToYaml == 100    \* ccv.py:536

\* schema.py:24-32
LoadedWrapper ==
    [initial_indent |-> "    ", subsequent_indent |-> "    ",
     width |-> Width, max_lines |-> MaxLines, placeholder |-> " ..."]

RECURSIVE spaces(_)
spaces(n) == IF n = 0 THEN "" ELSE " " \o spaces(n - 1)

\* s * n
RECURSIVE times(_, _)
times(s, n) == IF n = 0 THEN "" ELSE s \o times(s, n - 1)

\* replace_whitespace: a tab or a newline becomes a blank
RECURSIVE munge_whitespace(_)
munge_whitespace(s) ==
    IF Len(s) = 0 THEN ""
    ELSE IF Len(s) = 1 THEN (IF s \in {"\t", "\n"} THEN " " ELSE s)
    ELSE munge_whitespace(SubSeq(s, 1, Len(s) \div 2))
         \o munge_whitespace(SubSeq(s, Len(s) \div 2 + 1, Len(s)))

\* where the run of blanks, or of other characters, that holds position p
\* ends
RECURSIVE run_end(_, _, _)
run_end(s, p, blank) ==
    IF p < Len(s) /\ ((SubSeq(s, p + 1, p + 1) = " ") = blank)
    THEN run_end(s, p + 1, blank)
    ELSE p

\* the chunks of a text: its words and the runs of blanks between them
\* (the texts here have no hyphen, at which a word would be split as well)
split(s) ==
    LET blank(p) == SubSeq(s, p, p) = " "
        starts == {p \in 1..Len(s) : p = 1 \/ blank(p) # blank(p - 1)}
        start(i) == CHOOSE p \in starts :
                        Cardinality({q \in starts : q < p}) = i - 1
    IN  [i \in 1..Cardinality(starts) |->
            SubSeq(s, start(i), run_end(s, start(i), blank(start(i))))]

\* how many of the chunks fit into the rest of a line
RECURSIVE fit(_, _, _)
fit(chunks, cur_len, width) ==
    IF chunks # <<>> /\ cur_len + Len(Head(chunks)) <= width
    THEN 1 + fit(Tail(chunks), cur_len + Len(Head(chunks)), width)
    ELSE 0

\* the chunks of the next line and the chunks left over; a chunk longer
\* than a line is broken
cut_line(chunks, n, cur_len, width) ==
    IF n < Len(chunks) /\ Len(chunks[n + 1]) > width
    THEN [line |-> Append(SubSeq(chunks, 1, n),
                          SubSeq(chunks[n + 1], 1, width - cur_len)),
          rest |-> <<SubSeq(chunks[n + 1], width - cur_len + 1,
                            Len(chunks[n + 1]))>>
                   \o SubSeq(chunks, n + 2, Len(chunks))]
    ELSE [line |-> SubSeq(chunks, 1, n),
          rest |-> SubSeq(chunks, n + 1, Len(chunks))]

next_line(chunks, width) ==
    cut_line(chunks, fit(chunks, 0, width),
             Len(join(SubSeq(chunks, 1, fit(chunks, 0, width)))), width)

RECURSIVE rstrip(_)
rstrip(s) ==
    IF s # "" /\ SubSeq(s, Len(s), Len(s)) = " "
    THEN rstrip(SubSeq(s, 1, Len(s) - 1))
    ELSE s

RECURSIVE lstrip(_)
lstrip(s) ==
    IF s # "" /\ SubSeq(s, 1, 1) = " " THEN lstrip(SubSeq(s, 2, Len(s)))
    ELSE s

\* the last line that max_lines allows: chunks are dropped from its end
\* until it ends with a word and the placeholder fits behind it
RECURSIVE shorten(_, _, _)
shorten(cur_line, width, placeholder) ==
    IF cur_line = <<>> THEN <<>>
    ELSE IF /\ lstrip(cur_line[Len(cur_line)]) # ""
            /\ Len(join(cur_line)) + Len(placeholder) <= width
    THEN Append(cur_line, placeholder)
    ELSE shorten(SubSeq(cur_line, 1, Len(cur_line) - 1), width, placeholder)

\* the lines when the text is cut off: the shortened line, or the
\* placeholder behind the line before, or on a line of its own
truncated(w, short, lines, indent) ==
    IF short # <<>> THEN Append(lines, indent \o join(short))
    ELSE IF /\ lines # <<>>
            /\ Len(rstrip(lines[Len(lines)])) + Len(w.placeholder) <= w.width
    THEN [lines EXCEPT ![Len(lines)] = rstrip(@) \o w.placeholder]
    ELSE Append(lines, indent \o lstrip(w.placeholder))

\* TextWrapper._wrap_chunks: line by line; the line that reaches max_lines
\* while chunks are left over is cut off and ends the text
RECURSIVE wrap_chunks(_, _, _)
placed(w, cut, lines, indent) ==
    IF Len(lines) + 1 < w.max_lines \/ cut.rest = <<>>
    THEN wrap_chunks(w, cut.rest, Append(lines, indent \o join(cut.line)))
    ELSE truncated(w, shorten(cut.line, w.width - Len(indent), w.placeholder),
                   lines, indent)

line_indent(w, lines) ==
    IF lines = <<>> THEN w.initial_indent ELSE w.subsequent_indent

wrap_chunks(w, chunks, lines) ==
    IF chunks = <<>> THEN lines
    ELSE placed(w, next_line(chunks, w.width - Len(line_indent(w, lines))),
                lines, line_indent(w, lines))

\* TextWrapper.wrap(text)
wrap(w, text) == wrap_chunks(w, split(munge_whitespace(text)), <<>>)

(***************************************************************************)
(* Field.to_yaml, Section.to_yaml, CCV.content_to_yaml and CCV.to_yaml     *)
(***************************************************************************)
\* the wrapper of line 966-970 for the lines of a block
block_wrapper(w) ==
    [w EXCEPT !.initial_indent = spaces(Len(w.initial_indent) + 2),
              !.subsequent_indent = spaces(Len(w.initial_indent) + 2 + 2)]

\* lines 964-971: a text of several lines becomes a folded block
folded(lines, header, content, w) ==
    IF Len(lines) > 1
    THEN wrap(w, header \o ": >-") \o wrap(block_wrapper(w), content)
    ELSE lines

\* Field.text_to_yaml(header, content, wrapper)
text_to_yaml(header, content, w) ==
    folded(wrap(w, header \o ": " \o content), header, content, w)

\* the lines made so far, or an exception
Lines(q) == [raised |-> FALSE, lines |-> q]
NoLines == [raised |-> TRUE, lines |-> <<>>]

\* yaml.extend(...) after the lines before it
Extend(a, b) ==
    IF a.raised \/ b.raised THEN NoLines ELSE Lines(a.lines \o b.lines)

\* Field.to_yaml(value, wrapper) for a field that is not bilingual; a value
\* that is no string cannot be concatenated to the header
Field_to_yaml(f, value, w) ==
    IF value.k = "str" THEN Lines(text_to_yaml(FieldXml[f].label, value.s, w))
    ELSE NoLines

\* Section.to_yaml(wrapper)
Section_to_yaml(s, w) == Lines(wrap(w, label(s) \o ": "))

\* lines 400-407: the wrapper for an indent level and a prefix
level_wrapper(g, indent, prefix) ==
    [g EXCEPT !.initial_indent = times(g.initial_indent, indent) \o prefix,
              !.subsequent_indent = times(g.subsequent_indent, indent)
                                    \o spaces(Len(prefix))]

\* whether the contents of a section entry are written item by item, with
\* dashes: a list of two or more items
Dashed(entry) == ~entry.single /\ Len(entry.items) > 1

\* CCV.content_to_yaml(yaml, entries, indent_level, prefix), g being the
\* global _wrapper; opt is opts["prefix"], which the items of a list leave
\* at "  " for the sections after it
RECURSIVE yaml_entries(_, _, _, _, _)
content_to_yaml(g, entries, indent, prefix) ==
    yaml_entries(g, entries, indent, prefix, prefix)

\* lines 431-439: the items of a list, each after an empty line
RECURSIVE yaml_items(_, _, _)
yaml_items(g, items, indent) ==
    IF items = <<>> THEN Lines(<<>>)
    ELSE Extend(Lines(<<"">>),
         Extend(content_to_yaml(g, SubSeq(Head(items), 1, 1), indent, "- "),
         Extend(content_to_yaml(g, SubSeq(Head(items), 2, Len(Head(items))),
                                indent, "  "),
                yaml_items(g, Tail(items), indent))))

yaml_entries(g, entries, indent, prefix, opt) ==
    IF entries = <<>> THEN Lines(<<>>)
    ELSE IF Head(entries).kind = "field"
    THEN Extend(Field_to_yaml(Head(entries).id, Head(entries).value,
                              level_wrapper(g, indent, prefix)),
                yaml_entries(g, Tail(entries), indent, prefix, opt))
    ELSE IF Head(entries).kind = "error" \/ EmptyContent(Head(entries))
    THEN NoLines
    ELSE IF Dashed(Head(entries))
    THEN Extend(Section_to_yaml(Head(entries).id,
                                level_wrapper(g, indent, prefix)),
         Extend(yaml_items(g, Head(entries).items, indent + 1),
                yaml_entries(g, Tail(entries), indent, prefix, "  ")))
    ELSE Extend(Section_to_yaml(Head(entries).id,
                                level_wrapper(g, indent, prefix)),
         Extend(content_to_yaml(g, Head(entries).items[1], indent + 1, opt),
                yaml_entries(g, Tail(entries), indent, prefix, opt)))

\* CCV.to_yaml(path): the lines written, and _wrapper afterwards. The lines
\* are made with _wrapper as it is; the copy with max_lines = 100 replaces
\* it only after that, and not at all when an exception ends the call.
to_yaml(content, index, g) ==
    [out |-> content_to_yaml(g, get_content(content, index), 0, ""),
     wrapper |-> [g EXCEPT !.max_lines = MaxLinesToYaml]]

(***************************************************************************)
(* yaml.safe_load, for the documents CCV.to_yaml writes: mappings of       *)
(* plain scalars, folded blocks (>-), nested mappings and lists of         *)
(* mappings; every scalar is taken as a string                             *)
(***************************************************************************)
indent_of(line) == Len(line) - Len(lstrip(line))

\* the first line at or after i that is not blank
RECURSIVE skip_blank(_, _)
skip_blank(ls, i) ==
    IF i <= Len(ls) /\ lstrip(ls[i]) = "" THEN skip_blank(ls, i + 1) ELSE i

\* the colon that ends the key: the first one followed by a blank or by
\* the end of the line
RECURSIVE key_end(_, _)
key_end(line, i) ==
    IF find(line, ":", i) = 0 THEN 0
    ELSE IF \/ find(line, ":", i) = Len(line)
            \/ SubSeq(line, find(line, ":", i) + 1,
                      find(line, ":", i) + 1) = " "
    THEN find(line, ":", i)
    ELSE key_end(line, find(line, ":", i) + 1)

key_of(line, ind) == SubSeq(line, ind + 1, key_end(line, ind + 1) - 1)

scalar_of(line, ind) ==
    rstrip(lstrip(SubSeq(line, key_end(line, ind + 1) + 1, Len(line))))

is_dash(line, ind) == SubSeq(line, ind + 1, ind + 2) = "- "

\* a parsed value and the line after it
Parsed(val, next) == [val |-> val, next |-> next]

\* where the block that begins at line k with indentation b ends
RECURSIVE block_end(_, _, _)
block_end(ls, k, b) ==
    IF k <= Len(ls) /\ lstrip(ls[k]) # "" /\ indent_of(ls[k]) >= b
    THEN block_end(ls, k + 1, b)
    ELSE k

\* the lines k..e-1 of a folded block, b being its indentation: two lines
\* that both begin at the indentation are joined by a blank; a line that is
\* indented more keeps the line breaks around it
RECURSIVE fold(_, _, _, _)
fold(ls, k, e, b) ==
    IF k + 1 >= e THEN SubSeq(ls[k], b + 1, Len(ls[k]))
    ELSE SubSeq(ls[k], b + 1, Len(ls[k]))
         \o (IF indent_of(ls[k]) = b /\ indent_of(ls[k + 1]) = b
             THEN " " ELSE "\n")
         \o fold(ls, k + 1, e, b)

\* the folded block after the key line, ind being the indentation of the
\* key; the line breaks at its end are stripped
block(ls, k, ind) ==
    IF k > Len(ls) \/ indent_of(ls[k]) <= ind THEN Parsed(VStr(""), k)
    ELSE Parsed(VStr(fold(ls, k, block_end(ls, k, indent_of(ls[k])),
                          indent_of(ls[k]))),
                block_end(ls, k, indent_of(ls[k])))

RECURSIVE parse_mapping(_, _, _)
RECURSIVE parse_sequence(_, _, _)

AsDict(r) == Parsed(VDict(r.val), r.next)
AsList(r) == Parsed(VList(r.val), r.next)

\* the value of a key that has nothing behind it: the mapping or the list
\* on the lines below it, None when there is none
nested(ls, k, ind) ==
    IF k > Len(ls) \/ indent_of(ls[k]) <= ind THEN Parsed(VNone, k)
    ELSE IF is_dash(ls[k], indent_of(ls[k]))
    THEN AsList(parse_sequence(ls, k, indent_of(ls[k])))
    ELSE AsDict(parse_mapping(ls, k, indent_of(ls[k])))

\* the value of the key on line j
value_at(ls, j, ind) ==
    IF scalar_of(ls[j], ind) = ">-" THEN block(ls, skip_blank(ls, j + 1), ind)
    ELSE IF scalar_of(ls[j], ind) = ""
    THEN nested(ls, skip_blank(ls, j + 1), ind)
    ELSE Parsed(VStr(scalar_of(ls[j], ind)), j + 1)

\* a key with its value before the rest of the mapping; of two equal keys
\* the later one stays
with_key(key, v, rest) == Parsed(rest.val @@ (key :> v.val), rest.next)

entry_at(ls, j, ind, v) ==
    with_key(key_of(ls[j], ind), v, parse_mapping(ls, v.next, ind))

\* the mapping whose keys begin at indentation ind, from line i on
parse_mapping(ls, i, ind) ==
    IF \/ skip_blank(ls, i) > Len(ls)
       \/ indent_of(ls[skip_blank(ls, i)]) # ind
       \/ is_dash(ls[skip_blank(ls, i)], ind)
       \/ key_end(ls[skip_blank(ls, i)], ind + 1) = 0
    THEN Parsed(EmptyMap, skip_blank(ls, i))
    ELSE entry_at(ls, skip_blank(ls, i), ind,
                  value_at(ls, skip_blank(ls, i), ind))

\* the line of an item without its dash
undash(ls, j, ind) ==
    [ls EXCEPT ![j] = spaces(ind + 2) \o SubSeq(ls[j], ind + 3, Len(ls[j]))]

item_at(ls, ind, m) ==
    Parsed(<<m.val>> \o parse_sequence(ls, m.next, ind).val,
           parse_sequence(ls, m.next, ind).next)

\* the list whose dashes are at indentation ind, from line i on
parse_sequence(ls, i, ind) ==
    IF \/ skip_blank(ls, i) > Len(ls)
       \/ indent_of(ls[skip_blank(ls, i)]) # ind
       \/ ~is_dash(ls[skip_blank(ls, i)], ind)
    THEN Parsed(<<>>, skip_blank(ls, i))
    ELSE item_at(ls, ind,
                 parse_mapping(undash(ls, skip_blank(ls, i), ind),
                               skip_blank(ls, i), ind + 2))

\* yaml.safe_load(text), the text being the lines joined by newlines; an
\* empty document is None
safe_load(ls) ==
    IF skip_blank(ls, 1) > Len(ls) THEN VNone
    ELSE VDict(parse_mapping(ls, 1, indent_of(ls[skip_blank(ls, 1)])).val)

\* CCV.add_yaml(text) on a new CCV()
Reloaded(schema, ls) ==
    add_content(NewCCV(schema), safe_load(ls), "", TRUE)

(***************************************************************************)
(* Inputs                                                                  *)
(***************************************************************************)
\* the names from_entries is called with: fields of sections s5, s6 and s7
\* and one name the schema does not declare
InputNames == {"A", "AB", "BC", "C", "Zzz"}

\* the keys of a record of a course that also has the key A
CourseNames == <<"Title", "Level", "Code", "A">>

\* name lists handed to from_entries: a set of names, listed in ascending or
\* descending order, and the keys of a course
NameLists ==
    LET sets == {S \in SUBSET InputNames :
                    Cardinality(S) >= 1 /\ Cardinality(S) <= MaxEntries}
        rev(q) == [i \in DOMAIN q |-> q[Len(q) + 1 - i]]
    IN  {SortNames(S) : S \in sets} \cup {rev(SortNames(S)) : S \in sets}
        \cup {CourseNames}

\* a text of n words
RECURSIVE Text(_)
Text(n) == IF n = 1 THEN "lorem" ELSE "lorem " \o Text(n - 1)

\* records of the mapping format
Course(code, title) == ("Code" :> VStr(code)) @@ ("Title" :> VStr(title))

\* what add_content is called with: entries and section ("" for None)
AddInputs ==
    { [entries |-> VDict(Course("x", "t")), section |-> ""],
      [entries |-> VDict(Course("xyz", "t")), section |-> ""],
      [entries |-> VDict(Course("y", "") @@ ("Level" :> VNone)),
       section |-> ""],
      [entries |-> VDict(("Title" :> VStr("t")) @@ ("Zzz" :> VStr("u"))),
       section |-> ""],
      [entries |-> VDict(("Title" :> VStr("t")) @@
                         ("Staff" :> VDict(("Name" :> VStr("")) @@
                                           ("Zzz" :> VStr("u")))) ),
       section |-> ""],
      [entries |-> VDict("Teaching" :>
                         VDict("Courses" :> VDict(Course("z", "t")))),
       section |-> ""],
      [entries |-> VList(<<Course("x", "t"), Course("y", "t")>>),
       section |-> "s2"],
      [entries |-> VDict("Courses" :>
                         VList(<<Course("x", "t"), Course("xyz", "t")>>)),
       section |-> "s1"],
      [entries |-> VDict("Name" :> VStr("n")), section |-> ""],
      [entries |-> VDict(Course("m", Text(15))), section |-> ""],
      [entries |-> VDict(Course("l", Text(30))), section |-> ""],
      [entries |-> VDict(("A" :> VStr("a")) @@ ("BC" :> VStr("b"))),
       section |-> ""],
      [entries |-> VDict(("AB" :> VStr("a")) @@ ("C" :> VStr("c"))),
       section |-> ""],
      [entries |-> VList(<<("Title" :> VStr("t")) @@ ("Staff" :> VStr("n")),
                           Course("y", "t")>>),
       section |-> "s2"],
      [entries |-> VDict("I" :> VStr("i")), section |-> "s12"],
      [entries |-> VDict(("Memo" :> VDict(("AB" :> VStr("a")) @@
                                          ("C" :> VStr("c")))) @@
                         ("Notes" :> VDict(("A" :> VStr("a")) @@
                                           ("BC" :> VStr("b"))))),
       section |-> ""],
      [entries |-> VList(<<Course("y", "t"),
                           Course("x", "t") @@ ("Zzz" :> VStr("u")),
                           ("Code" :> VStr("x")),
                           Course("x", "t")>>),
       section |-> "s2"],
      [entries |-> VDict(("Nope" :> VDict(Course("x", "t"))) @@
                         ("Teaching" :>
                            VDict("Courses" :> VDict(Course("z", "t"))))),
       section |-> ""] }

\* <section> elements of an imported document
CourseXml(code, title) ==
    [id |-> "s2", fields |-> ("f1" :> code) @@ ("f2" :> title),
     children |-> <<>>]
TeachingXml(courses) == [id |-> "s1", fields |-> EmptyMap, children |-> courses]

\* what CCV() is constructed from: no document, or the <section> children
\* of the document root
Documents ==
    { <<>>,
      <<TeachingXml(<<CourseXml("x", "t")>>)>>,
      <<TeachingXml(<<CourseXml("x", "t"), CourseXml("y", "")>>)>> }

\* the labels of the entries of a table
TableLabels(ref) ==
    {RefXml[ref].values[i].label : i \in DOMAIN RefXml[ref].values}

\* what Field.to_xml is called with: the labels of the table of the field
\* and a label it does not hold, or a text
FieldValues(f) ==
    IF FieldXml[f].type = "LOV"
    THEN {LovXml[FieldXml[f].lookup].values[i].label :
            i \in DOMAIN LovXml[FieldXml[f].lookup].values} \cup {"Other"}
    ELSE IF FieldXml[f].type = "Reference"
    THEN TableLabels(FieldXml[f].lookup) \cup {"Other"}
    ELSE {"t", "a \n  b"}

(***************************************************************************)
(* State machine                                                           *)
(***************************************************************************)
NoCall == [entries |-> <<>>, error |-> FALSE, out |-> RetNone]
NoGet == [class |-> "", label |-> "", keys |-> <<>>, out |-> SchemaError]

\* what Section is called with: a label, alone or with a parent label, or
\* an id. "Nope" is no label of the schema; "ABC" is none either, but the
\* names A and BC, and AB and C, concatenate to it
LookupKeys ==
    LET labels == {"Teaching", "Courses", "Staff", "Nope", "ABC"}
        parents_ == {"None", "Teaching", "Research", "Notes"}
    IN  {<<l>> : l \in labels}
        \cup {<<l, q>> : l \in labels, q \in parents_}
        \cup {<<s>> : s \in SectionIds \cup {"s8", "s9"}}
        \cup {<<"Extra">>}

\* what Field.from_section is called with: a field label and the keys of
\* a section
FieldLabels == {"Code", "Name", "A", "Nope"}
SectionKeys ==
    {<<"Courses", "Teaching">>, <<"Courses", "Research">>, <<"Courses">>,
     <<"Staff">>, <<"s2">>, <<"Notes", "None">>}

\* nothing was parsed yet
NoParse == [xml |-> [id |-> "", fields |-> EmptyMap, children |-> <<>>],
            out |-> EmptyMap]

\* <section> elements parse_xml is called with: courses with their staff,
\* and the section above the courses
StaffXml(name) == [id |-> "s3", fields |-> ("f5" :> name), children |-> <<>>]
CourseWith(code, staff) ==
    [id |-> "s2", fields |-> ("f1" :> code), children |-> staff]
ParseInputs ==
    { CourseXml("x", "t"),
      CourseWith("x", <<StaffXml("a")>>),
      CourseWith("x", <<StaffXml("b"), StaffXml("a")>>),
      TeachingXml(<<CourseXml("x", "t")>>),
      TeachingXml(<<CourseXml("y", "t"), CourseXml("x", "t")>>),
      TeachingXml(<<CourseXml("y", "t"), CourseXml("x", "t"),
                    CourseXml("y", "t")>>),
      TeachingXml(<<CourseWith("y", <<StaffXml("b"), StaffXml("a"),
                                      StaffXml("c")>>),
                    CourseWith("x", <<StaffXml("a")>>)>>) }

\* no field was validated yet
NoRule == [field |-> "", value |-> VNone, entries |-> EmptyMap,
           raised |-> FALSE, msgs |-> {}]

\* what Field.validate is called with: a text, and a record with or
\* without a value for the field When
RuleValues == {VStr(""), VStr("p"), VStr("pqr")}
RuleRecords ==
    {("Code" :> VStr("x")),
     ("Code" :> VStr("x")) @@ ("When" :> VStr("")),
     ("Code" :> VStr("x")) @@ ("When" :> VStr("w")),
     ("Code" :> VStr("xyz")) @@ ("When" :> VStr("2020")),
     ("When" :> VDict("english" :> VStr("w"))),
     ("When" :> VDict(EmptyMap))}

\* no property of a section was read yet
NoProp == [section |-> "", is_dependent |-> FALSE, is_container |-> FALSE]

NoLoad == [cv |-> <<>>, raised |-> FALSE]

\* a <section> element of a schema definition handed to load_schema
SectionElement(id, l, parent, flds) ==
    [id |-> id, label |-> l, parent |-> parent, fields |-> flds]

\* schema definitions load_schema is called with after the first load: one
\* with a new section, one in which the label of the second section is
\* that of the first, one in which the id of a field is used twice, and
\* one that begins with a section of the schema already loaded
SchemaDocuments ==
    { <<SectionElement("s8", "Extra", "None", <<[id |-> "f12", label |-> "X"]>>)>>,
      <<SectionElement("s8", "Extra", "None", <<[id |-> "f12", label |-> "X"]>>),
        SectionElement("s9", "Extra", "None", <<>>)>>,
      <<SectionElement("s8", "Extra", "None",
                       <<[id |-> "f12", label |-> "X"],
                         [id |-> "f12", label |-> "Y"]>>)>>,
      <<SectionElement("s1", "Teaching", "None", <<>>),
        SectionElement("s8", "Extra", "None", <<>>)>> }

NoXml == [op |-> "", node |-> "", value |-> "", out |-> Failed]

\* the state after load_schema() and CCV(xml_path)
Constructed(st, xml) ==
    /\ _schema = st.schema
    /\ _content = st.content
    /\ _index = st.index
    /\ ingested = st.ingested
    /\ lastOp = [op |-> "init", entries |-> VNone, section |-> "",
                 validate |-> TRUE, target |-> "",
                 raised |-> st.raised, imported |-> Len(xml) > 0,
                 yaml |-> Len(xml) = 0]

Init ==
    /\ \E xml \in Documents :
        Constructed(
            CCV_init([Section |-> LoadedSections, entries |-> LoadedEntries,
                      Field |-> LoadedFields],
                     xml),
            xml)
    /\ nOps = 0
    /\ lastCall = NoCall
    /\ nCalls = 0
    /\ lastGet = NoGet
    /\ lastLoad = NoLoad
    /\ lastProp = NoProp
    /\ lastRule = NoRule
    /\ lastParse = NoParse
    /\ ref_values = InitialValues
    /\ lastXml = NoXml
    /\ nXml = 0
    /\ _wrapper = LoadedWrapper
    /\ lastYaml = <<>>

ccvVars == <<_content, _index, ingested, lastOp, nOps>>
callVars == <<lastCall, nCalls, lastGet>>
xmlVars == <<ref_values, lastXml, nXml>>
yamlVars == <<_wrapper, lastYaml>>

\* Section.from_entries(entries, error)
FromEntries ==
    /\ nCalls < MaxCalls
    /\ \E entries \in NameLists, error \in BOOLEAN :
        LET r == from_entries(_schema, entries, error)
        IN  /\ _schema' = r.schema
            /\ lastCall' = [entries |-> entries, error |-> error,
                            out |-> r.out]
    /\ nCalls' = nCalls + 1
    /\ UNCHANGED <<lastParse, lastLoad, lastProp, lastRule, lastGet, ccvVars, xmlVars, yamlVars>>

\* Section(label), Section(label, parent_label) or Section(id)
SectionLookup ==
    /\ nCalls < MaxCalls
    /\ \E keys \in LookupKeys :
        lastGet' = [class |-> "Section", label |-> "", keys |-> keys,
                    out |-> _get_schema(_schema.Section, keys)]
    /\ nCalls' = nCalls + 1
    /\ UNCHANGED <<lastParse, lastLoad, lastProp, lastRule, _schema, lastCall, ccvVars, xmlVars, yamlVars>>

\* Section(id).is_dependent and Section(id).is_container
SectionProperties ==
    /\ nCalls < MaxCalls
    /\ \E s \in SectionIds :
        lastProp' = [section |-> s, is_dependent |-> is_dependent(s),
                     is_container |-> is_container(s)]
    /\ nCalls' = nCalls + 1
    /\ UNCHANGED <<lastParse, lastLoad, lastRule, _schema, lastCall, lastGet, ccvVars,
                   xmlVars, yamlVars>>

\* CCV().parse_xml(xml)
ParseXml ==
    /\ nCalls < MaxCalls
    /\ \E xml \in ParseInputs :
        lastParse' = [xml |-> xml, out |-> parse_xml(xml)]
    /\ nCalls' = nCalls + 1
    /\ UNCHANGED <<lastLoad, lastProp, lastRule, _schema, lastCall, lastGet,
                   ccvVars, xmlVars, yamlVars>>

\* Field(f).validate(value, entries): the rules of the field one by one
FieldValidate ==
    /\ nCalls < MaxCalls
    /\ \E f \in {g \in FieldIds : FieldXml[g].rules # <<>>},
          value \in RuleValues, entries \in RuleRecords :
        LET record == (FieldXml[f].label :> value) @@ entries
        IN  lastRule' =
                [field |-> f, value |-> value, entries |-> record,
                 raised |-> \E i \in DOMAIN FieldXml[f].rules :
                              Rule_raises(FieldXml[f].rules[i], value, record),
                 msgs |-> Field_validate(f, value)]
    /\ nCalls' = nCalls + 1
    /\ UNCHANGED <<lastParse, lastLoad, lastProp, _schema, lastCall, lastGet, ccvVars,
                   xmlVars, yamlVars>>

\* CCV.add_content(entries, section, validate)
Added(st, found, inp, validate) ==
    /\ _schema' = st.schema
    /\ _content' = st.content
    /\ _index' = st.index
    /\ ingested' = st.ingested
    /\ lastOp' = [op |-> "add_content", entries |-> inp.entries,
                  section |-> inp.section, validate |-> validate,
                  target |-> found.out.id, raised |-> st.raised,
                  imported |-> lastOp.imported,
                  yaml |-> /\ lastOp.yaml
                           /\ inp.section = ""
                           /\ validate
                           /\ ~st.raised]

AddContent ==
    /\ nOps < MaxOps
    /\ \E inp \in AddInputs, validate \in BOOLEAN :
        Added(add_content([schema |-> _schema, content |-> _content,
                           index |-> _index, ingested |-> ingested,
                           raised |-> FALSE],
                          inp.entries, inp.section, validate),
              Resolve(_schema, inp.entries, inp.section), inp, validate)
    /\ nOps' = nOps + 1
    /\ UNCHANGED <<lastParse, lastLoad, lastProp, lastRule, callVars, xmlVars, yamlVars>>

\* the lines of a to_yaml call are written and _wrapper replaced, unless
\* the call raised
Written(r) ==
    /\ lastYaml' = IF r.out.raised THEN lastYaml ELSE r.out.lines
    /\ _wrapper' = IF r.out.raised THEN _wrapper ELSE r.wrapper
    /\ lastOp' = [lastOp EXCEPT !.op = "to_yaml", !.entries = VNone,
                                !.section = "", !.target = "",
                                !.raised = r.out.raised]

\* CCV.to_yaml(path)
ToYaml ==
    /\ nOps < MaxOps
    /\ Written(to_yaml(_content, _index, _wrapper))
    /\ _content' = sorted_content(_content, _index).content
    /\ _index' = sorted_content(_content, _index).index
    /\ nOps' = nOps + 1
    /\ UNCHANGED <<lastParse, lastLoad, lastProp, lastRule, _schema, ingested, callVars, xmlVars>>

\* the outcome of a to_xml call is recorded, and entry.values is as the
\* call left it
Exported(op, node, value, r) ==
    /\ ref_values' = r.values
    /\ lastXml' = [op |-> op, node |-> node, value |-> value, out |-> r.out]

\* Field.to_xml(value) for a field of section s2
FieldToXml ==
    /\ nXml < MaxXml
    /\ \E f \in {"f2", "f3", "f4", "f12", "f13", "f14"} :
        \E value \in FieldValues(f) :
            Exported("Field.to_xml", f, value,
                     Field_to_xml(f, ref_values, value))
    /\ nXml' = nXml + 1
    /\ UNCHANGED <<lastParse, lastLoad, lastProp, lastRule, _schema, ccvVars, callVars, yamlVars>>

\* Reference(ref).to_xml(value)
ReferenceToXml ==
    /\ nXml < MaxXml
    /\ \E ref \in RefIds :
        \E value \in TableLabels(ref) \cup {"Other"} :
            Exported("Reference.to_xml", ref, value,
                     Reference_to_xml(ref, ref_values, value))
    /\ nXml' = nXml + 1
    /\ UNCHANGED <<lastParse, lastLoad, lastProp, lastRule, _schema, ccvVars, callVars, yamlVars>>

\* Field(id), or Field.from_section(label, *args)
FieldLookup ==
    /\ nCalls < MaxCalls
    /\ \/ \E f \in FieldIds :
            lastGet' = [class |-> "Field", label |-> "", keys |-> <<f>>,
                        out |-> _get_schema(_schema.Field, <<f>>)]
       \/ \E l \in FieldLabels, keys \in SectionKeys :
            lastGet' = [class |-> "from_section", label |-> l, keys |-> keys,
                        out |-> from_section(_schema, l, keys)]
    /\ nCalls' = nCalls + 1
    /\ UNCHANGED <<lastParse, lastLoad, lastProp, lastRule, _schema, lastCall, ccvVars, xmlVars, yamlVars>>

\* load_schema(cv = path), called once more after the load at import
Loaded(cv, st) ==
    /\ _schema' = st.schema
    /\ lastLoad' = [cv |-> cv, raised |-> st.raised]

LoadSchema ==
    /\ lastLoad = NoLoad
    /\ \E cv \in SchemaDocuments :
        Loaded(cv, load_schema([raised |-> FALSE, schema |-> _schema], cv))
    /\ UNCHANGED <<lastParse, lastProp, lastRule, callVars, ccvVars, xmlVars, yamlVars>>

Next == FromEntries \/ SectionLookup \/ FieldLookup \/ SectionProperties

NextLoad == LoadSchema \/ SectionLookup

NextRule == FieldValidate \/ SectionProperties

NextParse == ParseXml \/ SectionProperties

SpecParse == Init /\ [][NextParse]_vars

SpecRule == Init /\ [][NextRule]_vars

SpecLoad == Init /\ [][NextLoad]_vars

Spec == Init /\ [][Next]_vars

NextCCV == AddContent \/ ToYaml

SpecCCV == Init /\ [][NextCCV]_vars

NextXml == FieldToXml \/ ReferenceToXml

SpecXml == Init /\ [][NextXml]_vars

(***************************************************************************)
(* Section inference: claims C2, C3, C4                                    *)
(***************************************************************************)
NameSet(q) == {q[i] : i \in DOMAIN q}

\* the sections that declare every one of the names
Declaring(names) == {s \in SectionIds : names \subseteq ChildLabels(s)}

\* the clusters the pass over the sorted names ends with
FinalClusters(entries) ==
    Clusters(LoadedEntries, sort(entries), <<{}>>, <<0>>)

\* the names match two distinct sections with equal overlap: the winning
\* cluster holds several ids, or another cluster with other sections has
\* the same match count
Tied(entries) ==
    LET c == FinalClusters(entries)
        i == IndexOfMax(c.numbers)
    IN  /\ Max(c.numbers) > 0
        /\ \/ Cardinality(c.sets[i]) > 1
           \/ \E j \in DOMAIN c.numbers :
                j # i /\ c.numbers[j] = c.numbers[i] /\ c.sets[j] # c.sets[i]

\* one section wins, but not every name counted for its cluster
PartialMatch(entries) ==
    LET c == FinalClusters(entries)
        i == IndexOfMax(c.numbers)
    IN  /\ Max(c.numbers) > 0
        /\ ~Tied(entries)
        /\ c.numbers[i] < Len(entries)

Winner(entries) ==
    LET c == FinalClusters(entries)
    IN  CHOOSE s \in c.sets[IndexOfMax(c.numbers)] : TRUE

\* C2: calls with the same set of names return the same Section every time,
\* and when exactly one section declares all the names, the call returns
\* that section, which is also what Section(label, parent_label) and
\* Section(id) return.
C2_SameSectionAsLookup ==
    [][LET c == lastCall'
           names == NameSet(c.entries)
       IN  /\ (/\ lastCall.out.kind = "section"
               /\ c.out.kind = "section"
               /\ NameSet(lastCall.entries) = names)
              => c.out.id = lastCall.out.id
           /\ Cardinality(Declaring(names)) = 1
              => \E s \in Declaring(names) :
                    /\ c.out = RetSection(s)
                    /\ _get_schema(_schema'.Section, <<s>>) = Found(s)
                    /\ _get_schema(_schema'.Section,
                                   <<label(s), parent_label(s)>>) = Found(s)
      ]_vars

\* C3: names that match two distinct sections with equal overlap make
\* from_entries raise SchemaError in strict mode and return None in
\* permissive mode; it never returns one of the tied sections.
C3_TieNeverPicksOne ==
    (lastCall.entries # <<>> /\ Tied(lastCall.entries))
        => lastCall.out = IF lastCall.error THEN Raise ELSE RetNone

\* C4: when fewer than all names match the winning cluster, from_entries
\* raises SchemaError in strict mode and returns the winning section in
\* permissive mode, whatever calls were made before.
C4_PartialMatch ==
    (lastCall.entries # <<>> /\ PartialMatch(lastCall.entries))
        => lastCall.out = IF lastCall.error THEN Raise
                          ELSE RetSection(Winner(lastCall.entries))

(***************************************************************************)
(* Ingestion: claims C5, C6, C7, C8                                        *)
(***************************************************************************)
Last(q) == q[Len(q)]

\* the last operation was add_content, with validation, of one record for
\* a record-holding section, and it did not raise
StoredOne ==
    /\ lastOp.op = "add_content"
    /\ lastOp.validate
    /\ lastOp.entries.k = "dict"
    /\ lastOp.target \in RecordSections
    /\ ~lastOp.raised

\* the record that operation appended to the section's container
StoredRecord == Last(_index[lastOp.target].items)

\* the fields of a raw record whose value violates a max-length rule
TooLong(section, rec) ==
    {l \in DOMAIN fields(section) \cap DOMAIN rec :
        \E i \in DOMAIN FieldXml[fields(section)[l]].rules :
            LET rule == FieldXml[fields(section)[l]].rules[i]
            IN  rule.id = 8 /\ len(CleanField(rec[l])) > rule.par}

\* the fields of a raw record that no rule rejects and that are not blank
ValidFields(section, rec) ==
    {l \in DOMAIN fields(section) \cap DOMAIN rec :
        /\ Field_validate(fields(section)[l], CleanField(rec[l])) = {}
        /\ CleanField(rec[l]) # VStr("")}

\* C5: add_content with validate=True on a record in which one field
\* violates its max-length rule stores a record that lacks that field and
\* contains every other valid field; no exception is raised.
C5_TooLongFieldDropped ==
    (/\ lastOp.op = "add_content"
     /\ lastOp.validate
     /\ lastOp.entries.k = "dict"
     /\ lastOp.target \in RecordSections
     /\ TooLong(lastOp.target, lastOp.entries.recs[1]) # {})
    => /\ ~lastOp.raised
       /\ \A l \in TooLong(lastOp.target, lastOp.entries.recs[1]) :
            l \notin DOMAIN StoredRecord
       /\ \A l \in ValidFields(lastOp.target, lastOp.entries.recs[1]) :
            /\ l \in DOMAIN StoredRecord
            /\ StoredRecord[l] = CleanField(lastOp.entries.recs[1][l])

\* C6: for a field-bearing, non-dependent section every ingested record
\* adds exactly one entry: the content reachable from the root holds, for
\* that section, the ingested records in ingestion order, none replaced or
\* lost.
C6_OneEntryPerRecord ==
    \A t \in RecordSections : Reachable(_content, _index, t) = ingested[t]

\* the keys of a raw record that are neither a field nor a subsection
UnknownKeys(section, rec) ==
    DOMAIN rec \ (DOMAIN fields(section) \cup DOMAIN sections(section))

\* C7: a key of the raw record that is neither a declared field nor a
\* declared subsection of the target section is absent from the Record
\* that validate_content returns and add_content stores, and no error is
\* raised for it.
C7_UnknownKeyDropped ==
    (/\ lastOp.op = "add_content"
     /\ lastOp.validate
     /\ lastOp.entries.k = "dict"
     /\ lastOp.target \in RecordSections
     /\ UnknownKeys(lastOp.target, lastOp.entries.recs[1]) # {})
    => /\ ~lastOp.raised
       /\ \A key \in UnknownKeys(lastOp.target, lastOp.entries.recs[1]) :
            key \notin DOMAIN StoredRecord

\* no declared field of the section, or of a subsection record inside,
\* maps to an empty string or None
RECURSIVE NoBlankField(_, _)
NoBlankField(section, rec) ==
    /\ \A l \in DOMAIN fields(section) \cap DOMAIN rec :
            rec[l] # VStr("") /\ rec[l] # VNone
    /\ \A l \in (DOMAIN sections(section) \cap DOMAIN rec) \ DOMAIN fields(section) :
            \A i \in DOMAIN rec[l].recs :
                NoBlankField(sections(section)[l], rec[l].recs[i])

\* C8: after validate_content no key that is a declared field of the
\* section maps to an empty string or None in the returned Record, and a
\* declared field absent from the input is absent from the result.
C8_NoBlankFieldStored ==
    StoredOne
    => /\ NoBlankField(lastOp.target, StoredRecord)
       /\ \A l \in DOMAIN fields(lastOp.target) \ DOMAIN lastOp.entries.recs[1] :
            l \notin DOMAIN StoredRecord

\* a record with a blank field, a None field and an absent field was
\* validated and stored: the blank and the absent field are not in it
C8_Witness ==
    /\ StoredOne
    /\ lastOp.target = "s2"
    /\ "Title" \in DOMAIN lastOp.entries.recs[1]
    /\ lastOp.entries.recs[1]["Title"] = VStr("")
    /\ "Level" \in DOMAIN lastOp.entries.recs[1]
    /\ lastOp.entries.recs[1]["Level"] = VNone
    /\ "Org" \notin DOMAIN lastOp.entries.recs[1]
    /\ DOMAIN StoredRecord = {"Code", "Level"}

(***************************************************************************)
(* Export of field values: claims C9, C10                                  *)
(***************************************************************************)
\* the last call was Field.to_xml on a LOV field with a label of its table
LovExported ==
    /\ lastXml.op = "Field.to_xml"
    /\ FieldXml[lastXml.node].type = "LOV"
    /\ lastXml.value \in FieldValues(lastXml.node) \ {"Other"}

\* C9: for a LOV field, Field.to_xml(label) emits a lov element whose id
\* attribute is the id of the value of the table that has this label, and
\* whose text is the label.
C9_LovIdIsValueId ==
    LovExported =>
        /\ ~lastXml.out.raised
        /\ LET lov == lastXml.out.elem.children[1]
               codes == LovXml[FieldXml[lastXml.node].lookup].values
           IN  /\ lov.tag = "lov"
               /\ lov.text = lastXml.value
               /\ \E i \in DOMAIN codes :
                    /\ codes[i].label = lastXml.value
                    /\ lov.attrib.id = codes[i].id

\* the number of classification levels above a reference table
Levels(ref) == Len(header_rows(RefXml[ref].rows))

\* the last call resolved a label of a reference table, directly or through
\* a Reference field: the table and the refTable element it produced
RefExported ==
    \/ /\ lastXml.op = "Reference.to_xml"
       /\ lastXml.value \in TableLabels(lastXml.node)
    \/ /\ lastXml.op = "Field.to_xml"
       /\ FieldXml[lastXml.node].type = "Reference"
       /\ lastXml.value \in FieldValues(lastXml.node) \ {"Other"}

LastTable ==
    IF lastXml.op = "Reference.to_xml" THEN lastXml.node
    ELSE FieldXml[lastXml.node].lookup

LastRefTable ==
    IF lastXml.op = "Reference.to_xml" THEN lastXml.out.elem
    ELSE lastXml.out.elem.children[1]

\* the table/field element of the leaf value with the label
LeafField(ref, value) ==
    LET id == (CHOOSE v \in {RefXml[ref].values[i] :
                                i \in DOMAIN RefXml[ref].values} :
                    v.label = value).id
    IN  CHOOSE fld \in {RefXml[ref].fields[i] : i \in DOMAIN RefXml[ref].fields} :
            fld.id = id

\* C10: for a reference table with k classification levels above it,
\* Reference.to_xml of a leaf value emits exactly k+1 linkedWith elements,
\* the outermost level first and the value of the table itself last, each
\* with the id of the table of its level and the label the leaf has at
\* that level; a repeated call emits the same.
C10_ReferenceChain ==
    RefExported =>
        /\ ~lastXml.out.raised
        /\ LET ref == LastTable
               k == Levels(ref)
               links == LastRefTable.children
               leaf == LeafField(ref, lastXml.value)
           IN  /\ LastRefTable.tag = "refTable"
               /\ LastRefTable.attrib.refValueId = leaf.id
               /\ Len(links) = k + 1
               /\ \A i \in DOMAIN links : links[i].tag = "linkedWith"
               /\ \A i \in 1..k :
                    /\ links[i].attrib.refOrLovId =
                            header_id(header_rows(RefXml[ref].rows)[i]).id
                    /\ links[i].attrib.value =
                            lookup(ref)[leaf.children[i]]
               /\ links[k + 1].attrib.refOrLovId = ref
               /\ links[k + 1].attrib.value = lastXml.value

\* a leaf of the table with two levels above it was resolved for the second
\* time: its entry.values already held the label of the first call
C10_Witness ==
    /\ RefExported
    /\ LastTable = "r3"
    /\ ~lastXml.out.raised
    /\ Len(ref_values["r3"][LeafField("r3", lastXml.value).id]) = Levels("r3") + 2
    /\ Len(LastRefTable.children) = 3

\* the CCV was made empty, every record came in through add_yaml and
\* to_yaml has just written the text of its content
YamlWritten ==
    /\ lastOp.op = "to_yaml"
    /\ ~lastOp.raised
    /\ lastOp.yaml
    /\ \E s \in SectionIds : ingested[s] # <<>>

\* to_xml of a CCV
Export(st) == CCV_to_xml(st.content, st.index, ref_values)

\* to_xml of this CCV
Original == CCV_to_xml(_content, _index, ref_values)

\* C1: for any record ingested with add_yaml, writing the CCV with to_yaml,
\* ingesting that text into a fresh CCV and exporting it with to_xml gives
\* the same XML as to_xml of the original CCV.
C1_YamlRoundTrip ==
    (YamlWritten /\ ~Original.raised) =>
        Export(Reloaded(_schema, lastYaml)) = Original

\* the last operation was add_content of one record for a record-holding
\* section, and it did not raise
AddedOne ==
    /\ lastOp.op = "add_content"
    /\ lastOp.entries.k = "dict"
    /\ lastOp.target \in RecordSections
    /\ ~lastOp.raised

\* the subsections of a record that hold exactly one child record, as a
\* mapping or as a list of one
SingleChildren(section, rec) ==
    {key \in DOMAIN sections(section) \cap DOMAIN rec :
        rec[key].k \in {"dict", "list"} /\ Len(rec[key].recs) = 1}

\* what content_to_xml and content_to_yaml make of the flattened record
Exports(section, rec) ==
    [xml |-> content_to_xml(ref_values, content_to_list(section, rec)),
     yaml |-> content_to_yaml(_wrapper, content_to_list(section, rec), 0, "")]

\* the record with the one child record of a subsection stored as a
\* mapping, and as a list of one
AsMapping(rec, key) == [rec EXCEPT ![key] = VDict(rec[key].recs[1])]
AsListOfOne(rec, key) == [rec EXCEPT ![key] = VList(<<rec[key].recs[1]>>)]

\* C11: a section holding exactly one child record is exported identically
\* by content_to_list followed by content_to_xml, and by content_to_yaml,
\* whether that record is stored as a single mapping or as a list of one.
C11_OneRecordEitherWay ==
    AddedOne =>
        \A key \in SingleChildren(lastOp.target, StoredRecord) :
            Exports(lastOp.target, AsMapping(StoredRecord, key))
                = Exports(lastOp.target, AsListOfOne(StoredRecord, key))

\* a Section(label) or Section(label, parent_label) lookup was made
LabelLookup ==
    lastGet.class = "Section" /\ lastGet.keys[1] \notin SectionIds

\* the sections that carry a label, and those of them under a parent label
Carriers(l) == {s \in SectionIds : label(s) = l}
Under(keys) ==
    {s \in Carriers(keys[1]) : Len(keys) = 2 /\ parent_label(s) = keys[2]}

\* C12: Section(label) raises SchemaError if no section has the label; if
\* several sections share it, the lookup without a parent, or with a parent
\* label that is the parent of none of them, raises SchemaError; with a
\* matching parent it returns exactly the section with that label under
\* that parent; a label carried by one section resolves without a parent.
C12_LookupByLabel ==
    LabelLookup =>
        /\ Carriers(lastGet.keys[1]) = {} => ~lastGet.out.ok
        /\ (Cardinality(Carriers(lastGet.keys[1])) > 1
                /\ Under(lastGet.keys) = {}) => ~lastGet.out.ok
        /\ Under(lastGet.keys) # {} =>
                /\ lastGet.out.ok
                /\ Under(lastGet.keys) = {lastGet.out.id}
        /\ (Cardinality(Carriers(lastGet.keys[1])) = 1
                /\ Len(lastGet.keys) = 1) =>
                /\ lastGet.out.ok
                /\ Carriers(lastGet.keys[1]) = {lastGet.out.id}

\* the keys a section is looked up by, and those a field is reached by
KeysOf(s) == {<<s>>, <<label(s), parent_label(s)>>}
FieldsReached(l, keys) ==
    {f \in FieldIds : FieldXml[f].label = l /\ keys \in KeysOf(FieldXml[f].section)}

BulkItems(op) ==
    IF op.entries.k = "list" /\ op.section # ""
    THEN {[section |-> op.section, rec |-> op.entries.recs[i]] :
            i \in DOMAIN op.entries.recs}
    ELSE IF op.entries.k = "dict" /\ op.section = "" /\ op.target = ""
    THEN {[section |-> _get_schema(LoadedSections, <<key, "None">>).id,
           rec |-> op.entries.recs[1][key].recs[1]] :
            key \in {k \in DOMAIN op.entries.recs[1] :
                        op.entries.recs[1][k].k = "dict"}}
    ELSE {}

\* an item that is ingested without error when it is given on its own
Sound(item, validate) ==
    /\ item.section # ""
    /\ ~is_dependent(item.section)
    /\ ~(validate /\ validate_raises(item.section, item.rec))

\* the record that is stored for an item
StoredFor(item, validate) ==
    IF validate THEN validate_content(item.section, item.rec) ELSE item.rec

\* the record-holding sections at or below a section
RecordsBelow(section) ==
    {t \in RecordSections :
        section \in {t} \cup {parent_list(t)[i] : i \in DOMAIN parent_list(t)}}

\* the records of section t ingested by the step
NewRecords(t) ==
    {ingested'[t][j] : j \in (Len(ingested[t]) + 1)..Len(ingested'[t])}

\* C14: in a bulk ingestion (add_content of a list of records or of a
\* root-level mapping of several sections) an error raised while ingesting
\* one item does not prevent the items after it from being ingested: every
\* item that is sound on its own is ingested.
C14_BulkContinues ==
    [][(nOps' = nOps + 1 /\ lastOp'.op = "add_content")
        => \A item \in BulkItems(lastOp') :
            Sound(item, lastOp'.validate)
            => \A t \in RecordsBelow(item.section) :
                \A i \in DOMAIN RecordsFor(t, item.section,
                                     StoredFor(item, lastOp'.validate)) :
                    RecordsFor(t, item.section,
                               StoredFor(item, lastOp'.validate))[i]
                        \in NewRecords(t)]_vars

\* C15: if load_schema raises SchemaError, the process-wide schema holds
\* no entry added by the failed load.
C15_NoPartialSchema ==
    [][(lastLoad' # lastLoad /\ lastLoad'.raised) => _schema' = _schema]_vars

\* C16: once load_schema has completed, no lookup, section inference,
\* ingestion or export changes the process-wide schema: the _schema
\* dictionary and the value lists of every LOV and Reference table are the
\* same before and after the operation.
C16_SchemaReadOnly ==
    [][_schema' = _schema /\ ref_values' = ref_values]_vars

(***************************************************************************)
(* Unsupported data types: claim C17                                       *)
(***************************************************************************)
\* the fields of the schema whose type is one of the unsupported ones
UnsupportedFields ==
    {f \in FieldIds : FieldXml[f].type \in UnsupportedTypes}

\* a course with a value for the field f, added to an empty CCV
WithValue(f) ==
    add_content(NewCCV(_schema),
                VDict(Course("x", "t") @@ (FieldXml[f].label :> VStr("v"))),
                "", TRUE)

\* C17: a schema that declares the unsupported types Datetime, Pubmed and
\* Elapsed-Time is loaded without error: the types and the fields of these
\* types are found in the schema, and a record with a value of such a field
\* is ingested and written to YAML.  Only the translation of a value fails:
\* Field.to_xml, through Type.to_xml, raises for it.
C17_UnsupportedFailsOnTranslation ==
    /\ \A t \in UnsupportedTypes :
            /\ Type(t).ok
            /\ TypeXml[Type(t).id] = t
    /\ \A f \in UnsupportedFields :
            /\ _get_schema(_schema.Field, <<f>>) = Found(f)
            /\ Field_type(f).ok
    /\ (lastXml.op = "Field.to_xml" /\ lastXml.node \in UnsupportedFields) =>
            /\ lastXml.out.raised
            /\ ~WithValue(lastXml.node).raised
            /\ \E i \in DOMAIN WithValue(lastXml.node).ingested["s2"] :
                    FieldXml[lastXml.node].label \in
                        DOMAIN WithValue(lastXml.node).ingested["s2"][i]
            /\ ~to_yaml(WithValue(lastXml.node).content,
                        WithValue(lastXml.node).index, _wrapper).out.raised

\* the last of the calls was Field.to_xml on a field of type Elapsed-Time
C17_Witness ==
    /\ lastXml.op = "Field.to_xml"
    /\ FieldXml[lastXml.node].type = "Elapsed-Time"
    /\ lastXml.out.raised
    /\ nXml = MaxXml

(***************************************************************************)
(* Repeated to_yaml: claim C18                                             *)
(***************************************************************************)
\* C18: to_yaml writes the complete value of every field, on the first call
\* as on every later one: after a to_yaml that did not raise, a further
\* to_yaml of the same content gives the text that was just written.
C18_SameTextEveryCall ==
    YamlWritten =>
        to_yaml(_content, _index, _wrapper).out.lines = lastYaml

(***************************************************************************)
(* Dependent sections: claims C19, C20                                     *)
(***************************************************************************)
\* C19: add_content on a dependent section, one below a section that
\* declares fields, raises and leaves the content model unchanged: _content
\* and _index are what they were before the call.
C19_DependentRejected ==
    [][(/\ nOps' = nOps + 1
        /\ lastOp'.op = "add_content"
        /\ lastOp'.target \in SectionIds
        /\ HasFieldAncestor(lastOp'.target))
       => (/\ lastOp'.raised
           /\ _content' = _content
           /\ _index' = _index)]_vars

\* C20: for every section, is_container is true exactly when neither the
\* section nor any of its ancestors declares a field, and is_dependent is
\* true exactly when some ancestor declares a field, also when two
\* ancestors have the same label.
C20_ContainerAndDependent ==
    lastProp # NoProp =>
        /\ lastProp.is_container <=>
                /\ DOMAIN fields(lastProp.section) = {}
                /\ ~HasFieldAncestor(lastProp.section)
        /\ lastProp.is_dependent <=> HasFieldAncestor(lastProp.section)

(***************************************************************************)
(* The order of the flattened content: claims C21, C22                     *)
(***************************************************************************)
\* the number an orderIndex stands for
RECURSIVE number(_)
number(digits) ==
    IF digits = "" THEN 0
    ELSE 10 * number(SubSeq(digits, 1, Len(digits) - 1))
         + (DigitRank(SubSeq(digits, Len(digits), Len(digits))) - 1)

\* the fields come before the sections, and each of the two groups is in
\* ascending order of the numbers, here and in every list below
RECURSIVE InDisplayOrder(_)
InDisplayOrder(list) ==
    /\ \A i, j \in DOMAIN list :
            i < j =>
                /\ ~(list[i].kind # "field" /\ list[j].kind = "field")
                /\ (list[i].kind = "field") = (list[j].kind = "field") =>
                        number(order(list[i].id)) <= number(order(list[j].id))
    /\ \A i \in DOMAIN list :
            \A k \in DOMAIN list[i].items : InDisplayOrder(list[i].items[k])

\* C21: content_to_list returns the field entries before the subsection
\* entries, and each of the two groups in ascending order of the orderIndex
\* of the schema taken as a number, whatever the order in which the keys
\* were stored.
C21_DisplayOrderIsNumeric ==
    (lastOp.op = "to_yaml") => InDisplayOrder(get_content(_content, _index))

\* the record x comes before the record y by the sort keys from the n-th
\* on: the first key on which they differ decides, upwards for "asc" and
\* downwards otherwise; a record without the field counts as the lowest
RECURSIVE KeyBefore(_, _, _, _)
KeyBefore(x, y, keys, n) ==
    IF n > Len(keys) THEN FALSE
    ELSE LET kx == sort_key(x, keys[n].field)
             ky == sort_key(y, keys[n].field)
         IN  IF kx = ky THEN KeyBefore(x, y, keys, n + 1)
             ELSE IF keys[n].direction = "asc" THEN text_less(kx, ky)
             ELSE text_less(ky, kx)

\* the stored records in the order the sort keys ask for: a rearrangement
\* in which no record comes after one it is before by the keys, and records
\* equal on all keys are in their stored order
InKeyOrder(stored, keys) ==
    LET n == Len(stored)
        turns == {f \in [1..n -> 1..n] : \A i, j \in 1..n : i # j => f[i] # f[j]}
        fine(f) ==
            \A a, b \in 1..n :
                a < b =>
                    /\ ~KeyBefore(stored[f[b]], stored[f[a]], keys, 1)
                    /\ ~KeyBefore(stored[f[a]], stored[f[b]], keys, 1)
                            => f[a] < f[b]
        f == CHOOSE g \in turns : fine(g)
    IN  [k \in 1..n |-> stored[f[k]]]

\* the lists of entries content_to_list gives for the records of the
\* section target, found along the path of sections from the root
RECURSIVE Listing(_, _)
Listing(list, path) ==
    LET hits == {i \in DOMAIN list :
                    list[i].kind = "section" /\ list[i].id = Head(path)}
        entry == list[CHOOSE i \in hits : TRUE]
    IN  IF hits = {} THEN <<>>
        ELSE IF Len(path) = 1 THEN entry.items
        ELSE IF Len(entry.items) # 1 THEN <<>>
        ELSE Listing(entry.items[1], Tail(path))

\* the sections of the model whose stored records are listed as several
\* instances
Listed == {"s2", "s5", "s6", "s7"}

ExclusiveChecked ==
    /\ lastRule.field # ""
    /\ \E i \in DOMAIN FieldXml[lastRule.field].rules :
            FieldXml[lastRule.field].rules[i].id = 24

\* the field the rule of kind 24 of field f names
OtherField(f) ==
    LET rules == FieldXml[f].rules
    IN  FieldXml[rules[CHOOSE i \in DOMAIN rules : rules[i].id = 24].par].label

\* C23: for a field with a mutually exclusive rule (kind 24), validation
\* gives a diagnostic when both the value and the value of the other named
\* field in the record are non-empty, gives nothing when either is empty,
\* and never raises.
C23_ExclusiveRuleDiagnoses ==
    ExclusiveChecked =>
        LET other == OtherField(lastRule.field)
            both == /\ len(lastRule.value) > 0
                    /\ other \in DOMAIN lastRule.entries
                    /\ len(lastRule.entries[other]) > 0
        IN  /\ ~lastRule.raised
            /\ both <=> lastRule.msgs # {}

(***************************************************************************)
(* Parsing of an exchange document: claim C24                              *)
(***************************************************************************)
\* the <section> children of an element that are of section t
ChildrenOf(xml, t) == SelectSeq(xml.children, LAMBDA c : c.id = t)

\* the element and the elements below it
RECURSIVE ElementsBelow(_)
ElementsBelow(xml) ==
    {xml} \cup UNION {ElementsBelow(xml.children[i]) : i \in DOMAIN xml.children}

\* C24: when a section element has n >= 2 child section elements of one
\* section, parse_xml maps the label of that section to the list of the n
\* parsed records in document order; with exactly one such child it maps
\* the label to that record itself, a mapping and not a list.
C24_SameSectionChildrenCoalesce ==
    \A e \in ElementsBelow(lastParse.xml) :
        \A t \in {e.children[i].id : i \in DOMAIN e.children} :
            LET same == ChildrenOf(e, t)
            IN  IF Len(same) = 1
                THEN parse_xml(e)[label(t)] = VDict(parse_xml(same[1]))
                ELSE parse_xml(e)[label(t)]
                        = VList([i \in DOMAIN same |-> parse_xml(same[i])])

\* an element with two courses, the first of them with three staff
\* members and the second with one, was parsed
C24_Witness ==
    /\ Len(ChildrenOf(lastParse.xml, "s2")) = 2
    /\ lastParse.out["Courses"].k = "list"
    /\ Len(lastParse.out["Courses"].recs) = 2
    /\ lastParse.out["Courses"].recs[1]["Staff"].k = "list"
    /\ Len(lastParse.out["Courses"].recs[1]["Staff"].recs) = 3
    /\ lastParse.out["Courses"].recs[2]["Staff"].k = "dict"

(***************************************************************************)
(* The index and the content: claim C25                                    *)
(***************************************************************************)
\* the container _index[s] is the object found from _content by the labels
\* of the ancestors of s and of s itself
RECURSIVE Attached(_)
Attached(s) ==
    LET up == SectionXml[s].parent
    IN  IF up = ""
        THEN /\ label(s) \in DOMAIN _content
             /\ _content[label(s)] = Ref(s)
        ELSE /\ up \in DOMAIN _index
             /\ ~_index[up].list
             /\ label(s) \in DOMAIN _index[up].map
             /\ _index[up].map[label(s)] = Ref(s)
             /\ Attached(up)

\* C25: after any sequence of XML import, get_container and add_content,
\* for every section id of _index the container _index[id] is the very
\* container reached from _content by the labels of the ancestors of the
\* section and of the section, so that a record appended through the index
\* is part of the exported content.
C25_IndexCoherent ==
    \A s \in DOMAIN _index : Attached(s)

(***************************************************************************)
(* Permissive inference: claim C26                                         *)
(***************************************************************************)
\* how many of the names section s declares
Matches(s, names) == Cardinality(names \cap ChildLabels(s))

\* C26: in permissive mode, whenever from_entries returns a section, that
\* section declares at least as many of the names as every other section
\* of the schema.
C26_PermissiveReturnsBestMatch ==
    (/\ lastCall.entries # <<>>
     /\ ~lastCall.error
     /\ lastCall.out.kind = "section")
        => \A s \in SectionIds :
                Matches(lastCall.out.id, NameSet(lastCall.entries))
                    >= Matches(s, NameSet(lastCall.entries))

(***************************************************************************)
(* The cache of from_entries: claim C27                                    *)
(***************************************************************************)
\* what the call returns in a process that has resolved no names before
FirstCall(entries) ==
    from_entries([Section |-> LoadedSections, entries |-> LoadedEntries,
                  Field |-> LoadedFields],
                 entries, FALSE).out

\* C27: the section from_entries returns for a set of names does not
\* depend on the name sets resolved before: another set of names with the
\* same concatenation, or a section id or label equal to the
\* concatenation, never makes the call return the section stored under
\* that key.
C27_ResultIndependentOfHistory ==
    (lastCall.entries # <<>> /\ lastCall.out.kind = "section")
        => lastCall.out = FirstCall(lastCall.entries)

(***************************************************************************)
(* Reading the content: claim C28                                          *)
(***************************************************************************)
\* C28: the reading operations leave the content model as it was: after
\* get_content / content_to_list, and to_xml or to_yaml built on them,
\* _content and _index are what they were before the call, the stored
\* order of the records of every section included.
C28_ReadLeavesContent ==
    [][(nOps' = nOps + 1 /\ lastOp'.op = "to_yaml")
        => (_content' = _content /\ _index' = _index)]_vars

(***************************************************************************)
(* Repeated export of a reference value: claim C29                         *)
(***************************************************************************)
\* what Reference.to_xml gives for the value when no value was exported
\* before
FirstExport(ref, value) == Reference_to_xml(ref, InitialValues, value).out

\* C29: Reference.to_xml called any number of times for the same value of
\* the same table emits the same refTable element each time: as many
\* linkedWith children, with the same refOrLovId and value in the same
\* order, the last one with the label of the leaf.
C29_SameRefTableEveryCall ==
    (lastXml.op = "Reference.to_xml"
        /\ lastXml.value \in TableLabels(lastXml.node))
    => /\ lastXml.out = FirstExport(lastXml.node, lastXml.value)
       /\ ~lastXml.out.raised
       /\ LET links == lastXml.out.elem.children
          IN  /\ Len(links) > 0
              /\ links[Len(links)].attrib.value = lastXml.value

\* a value of the table with two levels above it was exported for the
\* third time
C29_Witness ==
    /\ lastXml.op = "Reference.to_xml"
    /\ lastXml.node = "r3"
    /\ lastXml.value \in TableLabels("r3")
    /\ Len(ref_values["r3"][LeafField("r3", lastXml.value).id])
            = Len(InitialValues["r3"][LeafField("r3", lastXml.value).id]) + 3

(***************************************************************************)
(* Export of a section without known entries: claim C30                    *)
(***************************************************************************)
\* a section entry of the flattened content, at any depth, whose content is
\* an empty list: a record stored as a mapping that holds no known field
\* and no known subsection, or an empty list of records
RECURSIVE HasEmptyEntries(_)
HasEmptyEntries(entries) ==
    \E i \in DOMAIN entries :
        /\ entries[i].kind = "section"
        /\ \/ EmptyContent(entries[i])
           \/ \E j \in DOMAIN entries[i].items :
                    HasEmptyEntries(entries[i].items[j])

\* C30: for every content model reached by XML import, get_container and
\* add_content, get_content followed by content_to_xml, and by
\* content_to_yaml, does not fail when a container section or a single
\* stored sub-record holds no known field and no known subsection.
C30_ExportOfEmptyEntries ==
    HasEmptyEntries(get_content(_content, _index)) =>
        /\ ~CCV_to_xml(_content, _index, ref_values).raised
        /\ (lastOp.op = "to_yaml" => ~lastOp.raised)

=============================================================================
